---- MODULE Spec2Model ----
(***************************************************************************)
(* Model of backend/policy_generator.py: PolicyGenerator.generate and the  *)
(* helpers it calls, which compile a communication intent into a list of   *)
(* Kubernetes NetworkPolicy manifests; validate_intent and the Cilium      *)
(* variant generate_cilium_policy; and the two request handlers of         *)
(* backend/main.py that reach generate.                                    *)
(*                                                                         *)
(* Python values are modelled as tagged records: None, a str, a list.      *)
(* A Python dict is a function over its string keys, so that an omitted    *)
(* key ("ports" not in rule) differs from a key holding None.  An          *)
(* insertion-ordered dict that the code iterates over is a sequence of     *)
(* [key, val] items.                                                       *)
(***************************************************************************)
EXTENDS Integers, Sequences, FiniteSets, TLC

VARIABLES
    intent,              \* the intent the caller holds and passes to generate
    generated_policies,  \* PolicyGenerator.generated_policies, per instance
    now,                 \* the clock datetime.now() reads
    budget,              \* generate calls the run may still make
    first,               \* the earliest return of generate(intent), or NoCall
    ret,                 \* the latest return of generate, or NoCall
    validation,          \* the latest return of validate_intent(intent), or NoCall
    cilium,              \* the latest return of generate_cilium_policy(intent), or NoCall
    policies_store,      \* main.policies_store, in order of insertion
    manifests,           \* the list passed to to_yaml
    yaml,                \* the latest return of to_yaml(manifests), or NoCall
    allowed_connections, \* DriftDetector.allowed_connections, in order of insertion
    events,              \* DriftDetector.events
    registered,          \* the intent whose manifests were registered last, or NoCall
    drift_ret,           \* the latest DriftDetector call and its return, or NoCall
    cluster,             \* the calls made to the cluster client, with their results
    broadcasts,          \* the events handed to broadcast_event
    response             \* the latest response of a policy store handler, or NoCall

yaml_vars == <<manifests, yaml>>
drift_vars == <<allowed_connections, events, registered, drift_ret>>
cluster_vars == <<cluster, broadcasts>>

vars == <<intent, generated_policies, now, budget, first, ret,
          validation, cilium, policies_store, yaml_vars, drift_vars,
          cluster_vars, response>>

----------------------------------------------------------------------------
(* Python values *)

None == [t |-> "None"]
Str(s) == [t |-> "str", v |-> s]
List(s) == [t |-> "list", v |-> s]
Dict(d) == [t |-> "dict", v |-> d]

IsNone(x) == x.t = "None"

\* bool(x), as `if ports:` evaluates it
Truthy(x) ==
    CASE x.t = "None" -> FALSE
      [] x.t = "str" -> x.v # ""
      [] x.t = "list" -> x.v # <<>>
      [] x.t = "dict" -> DOMAIN x.v # {}

\* dict.get(key, default)
Get(d, key, default) == IF key \in DOMAIN d THEN d[key] ELSE default

\* str(x), as an f-string formats it
Format(x) == IF x.t = "str" THEN x.v ELSE "None"

EmptyDict == [k \in {} |-> None]

----------------------------------------------------------------------------
(* Insertion-ordered dict of lists: a sequence of [key, val] items *)

HasKey(items, k) == \E i \in 1..Len(items) : items[i].key = k

KeyIndex(items, k) == CHOOSE i \in 1..Len(items) : items[i].key = k

\* a bug: the membership test is dropped and every rule opens a new group
AppendUnderKeyUngrouped(items, k, x) == Append(items, [key |-> k, val |-> <<x>>])

\* a bug: a new group is put in front of the groups seen so far
AppendUnderKeyInFront(items, k, x) ==
    IF HasKey(items, k)
    THEN [items EXCEPT ![KeyIndex(items, k)].val = Append(@, x)]
    ELSE <<[key |-> k, val |-> <<x>>]>> \o items

\* if k not in d: d[k] = []
\* d[k].append(x)
AppendUnderKey(items, k, x) ==
    IF HasKey(items, k)
    THEN [items EXCEPT ![KeyIndex(items, k)].val = Append(@, x)]
    ELSE Append(items, [key |-> k, val |-> <<x>>])

\* sep.join(strs)
RECURSIVE Join(_, _)
Join(sep, strs) ==
    IF strs = <<>> THEN ""
    ELSE IF Len(strs) = 1 THEN Head(strs)
    ELSE Head(strs) \o sep \o Join(sep, Tail(strs))

----------------------------------------------------------------------------
(* PolicyGenerator._generate_default_deny *)

\* a bug: the manifest denies ingress only
GenerateDefaultDenyIngressOnly(namespace, at) ==
    [apiVersion |-> "networking.k8s.io/v1",
     kind |-> "NetworkPolicy",
     metadata |->
        [name |-> "default-deny-all",
         namespace |-> namespace,
         labels |-> ("app.kubernetes.io/managed-by" :> "k8s-policy-generator")
                    @@ ("policy-type" :> "default-deny"),
         annotations |-> ("description" :> "Default deny all ingress and egress traffic")
                         @@ ("generated-at" :> at)],
     spec |->
        [podSelector |-> EmptyDict,
         policyTypes |-> <<"Ingress">>]]

\* a bug: the manifest is written for namespace "default", whatever is passed
GenerateDefaultDenyInDefault(namespace, at) ==
    [apiVersion |-> "networking.k8s.io/v1",
     kind |-> "NetworkPolicy",
     metadata |->
        [name |-> "default-deny-all",
         namespace |-> Str("default"),
         labels |-> ("app.kubernetes.io/managed-by" :> "k8s-policy-generator")
                    @@ ("policy-type" :> "default-deny"),
         annotations |-> ("description" :> "Default deny all ingress and egress traffic")
                         @@ ("generated-at" :> at)],
     spec |->
        [podSelector |-> EmptyDict,
         policyTypes |-> <<"Ingress", "Egress">>]]

GenerateDefaultDeny(namespace, at) ==
    [apiVersion |-> "networking.k8s.io/v1",
     kind |-> "NetworkPolicy",
     metadata |->
        [name |-> "default-deny-all",
         namespace |-> namespace,
         labels |-> ("app.kubernetes.io/managed-by" :> "k8s-policy-generator")
                    @@ ("policy-type" :> "default-deny"),
         annotations |-> ("description" :> "Default deny all ingress and egress traffic")
                         @@ ("generated-at" :> at)],
     spec |->
        [podSelector |-> EmptyDict,
         policyTypes |-> <<"Ingress", "Egress">>]]

----------------------------------------------------------------------------
(* The ports x protocols loops of _generate_ingress_policy (134-139) and   *)
(* _generate_egress_policy (217-222)                                       *)

\* for protocol in protocols: entries.append({"port": port, "protocol": protocol})
RECURSIVE ProtocolLoop(_, _, _)
ProtocolLoop(entries, port, protocols) ==
    IF protocols = <<>> THEN entries
    ELSE ProtocolLoop(Append(entries, [port |-> port, protocol |-> Head(protocols)]),
                      port, Tail(protocols))

\* a bug: the loops are nested the other way round, protocols outer
RECURSIVE PortLoopProtocolsOuter(_, _, _)
PortLoopProtocolsOuter(entries, ports, protocols) ==
    IF protocols = <<>> THEN entries
    ELSE PortLoopProtocolsOuter(
             entries \o [a \in 1..Len(ports) |->
                            [port |-> ports[a], protocol |-> Head(protocols)]],
             ports, Tail(protocols))

\* for port in ports: for protocol in protocols: ...
RECURSIVE PortLoop(_, _, _)
PortLoop(entries, ports, protocols) ==
    IF ports = <<>> THEN entries
    ELSE PortLoop(ProtocolLoop(entries, Head(ports), protocols), Tail(ports), protocols)

\* iterating None raises TypeError; the inputs modelled are None or a list
Iterable(x) == x.t = "list"

----------------------------------------------------------------------------
(* PolicyGenerator._generate_ingress_policy *)

\* lines 113-124: the peer selector of one rule
FromSelector(rule, namespace) ==
    LET from_selector == [podSelector |-> [matchLabels |-> [app |-> rule["from"]]]]
        source_ns == Get(rule, "namespace", namespace)
    IN  IF source_ns # namespace
        THEN from_selector @@ [namespaceSelector |-> [matchLabels |-> [name |-> source_ns]]]
        ELSE from_selector

\* a bug: `if ports is not None` in place of `if ports`
IngressRuleUnlessNone(rule, namespace) ==
    LET ingress_rule == [from |-> <<FromSelector(rule, namespace)>>]
        ports == Get(rule, "ports", None)
        protocols == Get(rule, "protocols", List(<<"TCP">>))
    IN  IF ~IsNone(ports)
        THEN ingress_rule @@ [ports |-> IF ports.v = <<>> THEN <<>>
                                        ELSE PortLoop(<<>>, ports.v, protocols.v)]
        ELSE ingress_rule

\* lines 126-141: the ingress entry of one rule
IngressRule(rule, namespace) ==
    LET ingress_rule == [from |-> <<FromSelector(rule, namespace)>>]
        ports == Get(rule, "ports", None)
        protocols == Get(rule, "protocols", List(<<"TCP">>))
    IN  IF Truthy(ports)
        THEN ingress_rule @@ [ports |-> PortLoop(<<>>, ports.v, protocols.v)]
        ELSE ingress_rule

\* the exceptions the loop body of lines 112-141 raises on one rule
IngressRuleRaises(rule) ==
    \/ "from" \notin DOMAIN rule
    \/ /\ Truthy(Get(rule, "ports", None))
       /\ ~Iterable(Get(rule, "protocols", List(<<"TCP">>)))

\* a bug: a rule whose source already has an entry is skipped
IngressRulesDistinctSources(rules, namespace) ==
    LET kept == SelectSeq([i \in 1..Len(rules) |-> [at |-> i, rule |-> rules[i]]],
                          LAMBDA x : \A j \in 1..(x.at - 1) :
                                        rules[j]["from"] # x.rule["from"])
    IN  [k \in 1..Len(kept) |-> IngressRule(kept[k].rule, namespace)]

\* lines 110-141: ingress_rules, one entry appended per rule of the group
IngressRules(rules, namespace) ==
    [i \in 1..Len(rules) |-> IngressRule(rules[i], namespace)]

\* a bug: a source is listed once, however many rules name it
AllowedSourcesDistinct(rules) ==
    Join(",", [i \in 1..Len(rules) |->
                  IF \E j \in 1..(i - 1) : rules[j]["from"] = rules[i]["from"]
                  THEN "" ELSE rules[i]["from"].v])

\* line 158: ",".join([r["from"] for r in rules])
AllowedSources(rules) == Join(",", [i \in 1..Len(rules) |-> rules[i]["from"].v])

GenerateIngressPolicy(dest_service, rules, namespace, intent_name, at) ==
    [apiVersion |-> "networking.k8s.io/v1",
     kind |-> "NetworkPolicy",
     metadata |->
        [name |-> "allow-ingress-to-" \o Format(dest_service),
         namespace |-> namespace,
         labels |-> ("app.kubernetes.io/managed-by" :> "k8s-policy-generator")
                    @@ ("policy-type" :> "ingress")
                    @@ ("target-service" :> dest_service)
                    @@ ("intent" :> intent_name),
         annotations |-> ("description" :> "Allow ingress traffic to " \o Format(dest_service))
                         @@ ("generated-at" :> at)
                         @@ ("allowed-sources" :> AllowedSources(rules))],
     spec |->
        [podSelector |-> [matchLabels |-> [app |-> dest_service]],
         policyTypes |-> <<"Ingress">>,
         ingress |-> IngressRules(rules, namespace)]]

\* an exception anywhere in _generate_ingress_policy; join raises on a non-str
GenerateIngressPolicyRaises(rules) ==
    \E i \in 1..Len(rules) :
        IngressRuleRaises(rules[i]) \/ rules[i]["from"].t # "str"

----------------------------------------------------------------------------
(* PolicyGenerator._extract_egress_rules *)

\* lines 178-183: the destination record appended for one rule
EgressDestination(rule) ==
    [to |-> rule["to"],
     ports |-> Get(rule, "ports", None),
     protocols |-> Get(rule, "protocols", List(<<"TCP">>)),
     namespace |-> Get(rule, "namespace", Str("default"))]

\* lines 172-185: egress_by_source, grouped by rule["from"] in insertion order
RECURSIVE ExtractEgressRulesLoop(_, _)
ExtractEgressRulesLoop(egress_by_source, rules) ==
    IF rules = <<>> THEN egress_by_source
    ELSE ExtractEgressRulesLoop(
             AppendUnderKey(egress_by_source, Head(rules)["from"],
                            EgressDestination(Head(rules))),
             Tail(rules))

ExtractEgressRules(rules) == ExtractEgressRulesLoop(<<>>, rules)

ExtractEgressRulesRaises(rules) ==
    \E i \in 1..Len(rules) : {"from", "to"} \ DOMAIN rules[i] # {}

----------------------------------------------------------------------------
(* PolicyGenerator._generate_egress_policy *)

\* a bug: the destination namespace is compared with "default", not with the
\* namespace of the policy
ToSelectorAgainstDefault(dest, namespace) ==
    LET to_selector == [podSelector |-> [matchLabels |-> [app |-> dest["to"]]]]
        dest_ns == Get(dest, "namespace", namespace)
    IN  IF dest_ns # Str("default")
        THEN to_selector @@ [namespaceSelector |-> [matchLabels |-> [name |-> dest_ns]]]
        ELSE to_selector

\* lines 199-210: the peer selector of one destination
ToSelector(dest, namespace) ==
    LET to_selector == [podSelector |-> [matchLabels |-> [app |-> dest["to"]]]]
        dest_ns == Get(dest, "namespace", namespace)
    IN  IF dest_ns # namespace
        THEN to_selector @@ [namespaceSelector |-> [matchLabels |-> [name |-> dest_ns]]]
        ELSE to_selector

\* lines 212-224: the egress entry of one destination
EgressRule(dest, namespace) ==
    LET egress_rule == [to |-> <<ToSelector(dest, namespace)>>]
    IN  IF Truthy(Get(dest, "ports", None))
        THEN egress_rule @@
             [ports |-> PortLoop(<<>>, dest["ports"].v,
                                 Get(dest, "protocols", List(<<"TCP">>)).v)]
        ELSE egress_rule

\* lines 226-233: the DNS entry
DnsRule ==
    [to |-> <<>>,
     ports |-> <<[port |-> 53, protocol |-> "UDP"], [port |-> 53, protocol |-> "TCP"]>>]

\* a bug: a destination that already has an entry is skipped
EgressRulesDistinctDestinations(destinations, namespace) ==
    LET kept == SelectSeq([i \in 1..Len(destinations) |->
                              [at |-> i, dest |-> destinations[i]]],
                          LAMBDA x : \A j \in 1..(x.at - 1) :
                                        destinations[j]["to"] # x.dest["to"])
    IN  Append([k \in 1..Len(kept) |-> EgressRule(kept[k].dest, namespace)], DnsRule)

\* a bug: the DNS entry is left out when a destination already opens port 53
EgressRulesDnsOnce(destinations, namespace) ==
    LET entries == [i \in 1..Len(destinations) |-> EgressRule(destinations[i], namespace)]
    IN  IF \E i \in 1..Len(entries) :
              /\ "ports" \in DOMAIN entries[i]
              /\ \E j \in 1..Len(entries[i]["ports"]) : entries[i]["ports"][j].port = 53
        THEN entries
        ELSE Append(entries, DnsRule)

\* lines 196-233: egress_rules, one entry per destination and then the DNS entry
EgressRules(destinations, namespace) ==
    Append([i \in 1..Len(destinations) |-> EgressRule(destinations[i], namespace)],
           DnsRule)

GenerateEgressPolicy(source_service, destinations, namespace, intent_name, at) ==
    [apiVersion |-> "networking.k8s.io/v1",
     kind |-> "NetworkPolicy",
     metadata |->
        [name |-> "allow-egress-from-" \o Format(source_service),
         namespace |-> namespace,
         labels |-> ("app.kubernetes.io/managed-by" :> "k8s-policy-generator")
                    @@ ("policy-type" :> "egress")
                    @@ ("source-service" :> source_service)
                    @@ ("intent" :> intent_name),
         annotations |-> ("description" :> "Allow egress traffic from " \o Format(source_service))
                         @@ ("generated-at" :> at)
                         @@ ("allowed-destinations" :>
                               Join(",", [i \in 1..Len(destinations) |->
                                              destinations[i]["to"].v]))],
     spec |->
        [podSelector |-> [matchLabels |-> [app |-> source_service]],
         policyTypes |-> <<"Egress">>,
         egress |-> EgressRules(destinations, namespace)]]

\* an exception anywhere in _generate_egress_policy; join raises on a non-str
GenerateEgressPolicyRaises(destinations) ==
    \E i \in 1..Len(destinations) :
        \/ /\ Truthy(Get(destinations[i], "ports", None))
           /\ ~Iterable(Get(destinations[i], "protocols", List(<<"TCP">>)))
        \/ destinations[i]["to"].t # "str"

----------------------------------------------------------------------------
(* PolicyGenerator.generate *)

\* lines 47-52: rules_by_dest, grouped by rule["to"] in insertion order
RECURSIVE RulesByDestLoop(_, _)
RulesByDestLoop(rules_by_dest, rules) ==
    IF rules = <<>> THEN rules_by_dest
    ELSE RulesByDestLoop(AppendUnderKey(rules_by_dest, Head(rules)["to"], Head(rules)),
                         Tail(rules))

RulesByDest(rules) == RulesByDestLoop(<<>>, rules)

\* a bug: generate fills the list the instance holds instead of a new one
NewPoliciesAccumulated(self_generated_policies) == self_generated_policies

\* line 40: the list generate fills is a new one, whatever the instance holds
NewPolicies(self_generated_policies) == <<>>

\* lines 55-62
IngressPolicies(rules, namespace, intent_name, at) ==
    LET rules_by_dest == RulesByDest(rules)
    IN  [i \in 1..Len(rules_by_dest) |->
            GenerateIngressPolicy(rules_by_dest[i].key, rules_by_dest[i].val,
                                  namespace, intent_name, at)]

\* lines 65-73
EgressPolicies(rules, namespace, intent_name, at) ==
    LET egress_rules == ExtractEgressRules(rules)
    IN  [i \in 1..Len(egress_rules) |->
            GenerateEgressPolicy(egress_rules[i].key, egress_rules[i].val,
                                 namespace, intent_name, at)]

IntentRules(int) == Get(int, "rules", List(<<>>)).v

\* the list generate returns when no exception is raised
GeneratePolicies(self_generated_policies, int, at) ==
    LET namespace == Get(int, "namespace", Str("default"))
        intent_name == Get(int, "name", Str("generated"))
    IN  Append(NewPolicies(self_generated_policies), GenerateDefaultDeny(namespace, at))
        \o IngressPolicies(IntentRules(int), namespace, intent_name, at)
        \o EgressPolicies(IntentRules(int), namespace, intent_name, at)

\* generate raises: KeyError on a rule without from/to, TypeError on iterating
\* None or joining a non-str
GenerateRaises(int) ==
    LET rules == IntentRules(int)
    IN  \/ \E i \in 1..Len(rules) : "to" \notin DOMAIN rules[i]
        \/ GenerateIngressPolicyRaises(rules)
        \/ ExtractEgressRulesRaises(rules)
        \/ GenerateEgressPolicyRaises(
               [i \in 1..Len(rules) |-> EgressDestination(rules[i])])

\* a bug: generated_policies is an attribute of the class, one for all instances
StoreGeneratedOnClass(stored, g, policies) == [h \in DOMAIN stored |-> policies]

\* line 75: self.generated_policies = policies
StoreGenerated(stored, g, policies) == [stored EXCEPT ![g] = policies]

\* a bug: the namespace default is written into the intent (setdefault for get)
IntentAfterGenerateSetDefault(int) == [namespace |-> Str("default")] @@ int

\* the intent after generate: it is read with get and indexing, its rules are
\* appended to lists that generate creates, and nothing is assigned through it
IntentAfterGenerate(int) == int

----------------------------------------------------------------------------
(* PolicyGenerator.validate_intent *)

\* a bug: the test is `not intent.get("rules")`, which an empty list meets too
MissingRulesErrorsWhenEmpty(int) ==
    IF ~Truthy(Get(int, "rules", None))
    THEN <<"Missing 'rules' field in intent">> ELSE <<>>

\* lines 314-315
MissingRulesErrors(int) ==
    IF "rules" \notin DOMAIN int
    THEN <<"Missing 'rules' field in intent">> ELSE <<>>

\* lines 317-318
NoRulesWarnings(int) ==
    IF ~Truthy(Get(int, "rules", None))
    THEN <<"No rules defined in intent">> ELSE <<>>

\* a bug: `elif` for the second test, so a rule reports one problem at most
RuleErrorsElif(rule, i) ==
    IF "from" \notin DOMAIN rule
    THEN <<"Rule " \o ToString(i) \o ": Missing 'from' field">>
    ELSE IF "to" \notin DOMAIN rule
         THEN <<"Rule " \o ToString(i) \o ": Missing 'to' field">>
         ELSE <<>>

\* lines 321-324, for the rule at index i (from 0)
RuleErrors(rule, i) ==
    (IF "from" \notin DOMAIN rule
     THEN <<"Rule " \o ToString(i) \o ": Missing 'from' field">> ELSE <<>>)
    \o
    (IF "to" \notin DOMAIN rule
     THEN <<"Rule " \o ToString(i) \o ": Missing 'to' field">> ELSE <<>>)

\* lines 325-326; rule.get gives None for a missing key, and None == None
RuleWarnings(rule, i) ==
    IF Get(rule, "from", None) = Get(rule, "to", None)
    THEN <<"Rule " \o ToString(i) \o ": Source and destination are the same">>
    ELSE <<>>

\* the messages of the rules in rule order
RECURSIVE Flatten(_)
Flatten(seqs) ==
    IF seqs = <<>> THEN <<>> ELSE Head(seqs) \o Flatten(Tail(seqs))

ValidateIntent(int) ==
    LET rules == IntentRules(int)
        errors == MissingRulesErrors(int)
                  \o Flatten([i \in 1..Len(rules) |-> RuleErrors(rules[i], i - 1)])
        warnings == NoRulesWarnings(int)
                    \o Flatten([i \in 1..Len(rules) |-> RuleWarnings(rules[i], i - 1)])
    IN  [valid |-> Len(errors) = 0, errors |-> errors, warnings |-> warnings]

\* validate_intent only reads the intent, with `in` and get
IntentAfterValidate(int) == int

----------------------------------------------------------------------------
(* PolicyGenerator.generate_cilium_policy *)

\* lines 289-292
CiliumToPorts(rule) ==
    LET ports == Get(rule, "ports", List(<<80>>)).v
    IN  [ports |-> [k \in 1..Len(ports) |->
                       [port |-> ToString(ports[k]), protocol |-> "TCP"]],
         rules |-> rule["l7_rules"]]

\* lines 268-294: the manifest of one rule
CiliumPolicy(rule, namespace) ==
    LET ingress == [fromEndpoints |-> <<[matchLabels |-> [app |-> rule["from"]]]>>]
    IN  [apiVersion |-> "cilium.io/v2",
         kind |-> "CiliumNetworkPolicy",
         metadata |->
            [name |-> "cilium-" \o Format(rule["from"]) \o "-to-" \o Format(rule["to"]),
             namespace |-> namespace],
         spec |->
            [endpointSelector |-> [matchLabels |-> [app |-> rule["to"]]],
             ingress |-> <<IF Truthy(Get(rule, "l7_rules", None))
                           THEN ingress @@ [toPorts |-> <<CiliumToPorts(rule)>>]
                           ELSE ingress>>]]

\* a bug: rules are grouped by destination as generate groups them, and a
\* manifest is made for the first rule of each group
GenerateCiliumPolicyGrouped(int) ==
    LET groups == RulesByDest(IntentRules(int))
    IN  [k \in 1..Len(groups) |->
            CiliumPolicy(groups[k].val[1], Get(int, "namespace", Str("default")))]

\* the list generate_cilium_policy returns when no exception is raised: one
\* manifest per rule, in rule order
GenerateCiliumPolicy(int) ==
    LET rules == IntentRules(int)
    IN  [i \in 1..Len(rules) |->
            CiliumPolicy(rules[i], Get(int, "namespace", Str("default")))]

\* KeyError on a rule without from/to; TypeError on iterating ports = None
GenerateCiliumPolicyRaises(int) ==
    LET rules == IntentRules(int)
    IN  \E i \in 1..Len(rules) :
            \/ "from" \notin DOMAIN rules[i]
            \/ "to" \notin DOMAIN rules[i]
            \/ /\ Truthy(Get(rules[i], "l7_rules", None))
               /\ IsNone(Get(rules[i], "ports", List(<<80>>)))

\* a bug: the list is kept on the instance as generate keeps its own
StoredAfterCiliumKept(self_generated_policies, policies) == policies

\* self.generated_policies after generate_cilium_policy, which builds a local
\* list and assigns nothing to self
StoredAfterCilium(self_generated_policies, policies) == self_generated_policies

\* the intent after generate_cilium_policy: toPorts is assigned into the new
\* manifest, which refers to the rule's l7_rules without changing them
IntentAfterCilium(int) == int

----------------------------------------------------------------------------
(* DriftDetector: register_allowed_connections and check_connection *)

\* lines 98-99 and 104-105: selector.get("matchLabels", {}).get("app", "unknown")
SelectedApp(selector) ==
    Get(Get(selector, "matchLabels", EmptyDict), "app", Str("unknown"))

\* lines 102-108: the (target, source) pairs of one policy, in the order the
\* two loops visit them
PolicyPairs(policy) ==
    LET spec == Get(policy, "spec", EmptyDict)
        target_app == SelectedApp(Get(spec, "podSelector", EmptyDict))
        ingress == Get(spec, "ingress", <<>>)
    IN  Flatten([k \in 1..Len(ingress) |->
            [j \in 1..Len(Get(ingress[k], "from", <<>>)) |->
                [target |-> target_app,
                 source |-> SelectedApp(Get(ingress[k]["from"][j], "podSelector",
                                            EmptyDict))]]])

\* lines 92-94: policies of another kind are skipped
NetworkPolicies(pols) == SelectSeq(pols, LAMBDA policy : policy.kind = "NetworkPolicy")

RECURSIVE AllowedLoop(_, _)
AllowedLoop(allowed, pairs) ==
    IF pairs = <<>> THEN allowed
    ELSE AllowedLoop(AppendUnderKey(allowed, Head(pairs).target, Head(pairs).source),
                     Tail(pairs))

\* a bug: the dict is not cleared, so a registration adds to the earlier ones
RegisterAllowedConnectionsAdded(allowed, pols) ==
    AllowedLoop(allowed,
                Flatten([k \in 1..Len(NetworkPolicies(pols)) |->
                            PolicyPairs(NetworkPolicies(pols)[k])]))

\* allowed_connections after register_allowed_connections(pols)
RegisterAllowedConnections(allowed, pols) ==
    AllowedLoop(<<>>,
                Flatten([k \in 1..Len(NetworkPolicies(pols)) |->
                            PolicyPairs(NetworkPolicies(pols)[k])]))

\* lines 119-121: source in self.allowed_connections.get(destination, [])
SourceAllowed(allowed, source, destination) ==
    /\ HasKey(allowed, destination)
    /\ \E k \in 1..Len(allowed[KeyIndex(allowed, destination)].val) :
          allowed[KeyIndex(allowed, destination)].val[k] = source

\* DriftEvent.__init__: the id is made of the clock reading and a random number
DriftEvent(event_type, source_pod, destination_pod, action, severity, details, timestamp, at, random) ==
    [id |-> [stamp |-> at, n |-> random],
     event_type |-> event_type,
     source_pod |-> source_pod,
     destination_pod |-> destination_pod,
     action |-> action,
     severity |-> severity,
     details |-> details,
     namespace |-> "default",
     timestamp |-> timestamp,
     acknowledged |-> FALSE,
     resolved |-> FALSE]

\* lines 128-135: the event of a connection that is not allowed
UnauthorizedConnection(conn, at, random) ==
    DriftEvent("unauthorized_connection", conn.source, conn.destination,
               "blocked", "high",
               "Attempted connection from " \o Format(conn.source) \o " to "
                   \o Format(conn.destination) \o ":" \o ToString(conn.port) \o "/"
                   \o conn.protocol \o " not allowed by policy",
               at, at, random)

\* what check_connection returns
CheckConnection(allowed, conn, at, random) ==
    IF SourceAllowed(allowed, conn.source, conn.destination)
    THEN [allowed |-> TRUE,
          reason |-> "Connection from " \o Format(conn.source) \o " to "
                     \o Format(conn.destination) \o " is explicitly allowed"]
    ELSE [allowed |-> FALSE,
          reason |-> "Connection from " \o Format(conn.source) \o " to "
                     \o Format(conn.destination) \o " not in allowed list",
          drift_event_id |-> UnauthorizedConnection(conn, at, random).id]

\* the position of the event the loops of lines 244-247 and 252-255 stop at
HasEvent(evs, event_id) == \E i \in 1..Len(evs) : evs[i].id = event_id

FirstEvent(evs, event_id) ==
    CHOOSE i \in 1..Len(evs) :
        evs[i].id = event_id /\ \A j \in 1..(i - 1) : evs[j].id # event_id

\* a bug: acknowledging an event resolves it as well
AcknowledgedAndResolved(event) ==
    [event EXCEPT !.acknowledged = TRUE, !.resolved = TRUE]

\* line 246
Acknowledged(event) == [event EXCEPT !.acknowledged = TRUE]

\* line 254
Resolved(event) == [event EXCEPT !.resolved = TRUE]

\* line 231: the sort is stable and puts the newest first
RECURSIVE SortNewestFirst(_)
SortNewestFirst(evs) ==
    IF evs = <<>> THEN <<>>
    ELSE LET rest == SortNewestFirst(Tail(evs))
             older == {i \in 1..Len(rest) : rest[i].timestamp <= Head(evs).timestamp}
             at == IF older = {} THEN Len(rest) + 1
                   ELSE CHOOSE i \in older : \A j \in older : i <= j
         IN  SubSeq(rest, 1, at - 1) \o <<Head(evs)>> \o SubSeq(rest, at, Len(rest))

\* get_events(limit, severity): a copy is filtered, sorted and cut
GetEventsReturn(evs, limit, severity) ==
    LET filtered == IF Truthy(severity)
                    THEN SelectSeq(evs, LAMBDA e : e.severity = severity.v)
                    ELSE evs
        sorted == SortNewestFirst(filtered)
    IN  SubSeq(sorted, 1, IF Len(sorted) < limit THEN Len(sorted) ELSE limit)

\* a bug: self.events itself is sorted
EventsSortedInPlace(evs) == SortNewestFirst(evs)

\* self.events after get_events, which works on self.events.copy()
EventsAfterGetEvents(evs) == evs

----------------------------------------------------------------------------
(* The inputs: intents as the request layer or a direct caller builds them *)

MaxRules == 3
MaxCalls == 3

Services == {"frontend", "backend"}

Endpoints == {[from |-> Str(f), to |-> Str(t)] : f \in Services, t \in Services}

\* a rule key is omitted, None, or holds a value
PortsFields ==
    {EmptyDict, [ports |-> None], [ports |-> List(<<>>)],
     [ports |-> List(<<53>>)], [ports |-> List(<<80, 443>>)]}

ProtocolsFields ==
    {EmptyDict, [protocols |-> None], [protocols |-> List(<<>>)],
     [protocols |-> List(<<"TCP">>)], [protocols |-> List(<<"UDP", "TCP">>)]}

NamespaceFields ==
    {EmptyDict, [namespace |-> None],
     [namespace |-> Str("default")], [namespace |-> Str("web")]}

\* every combination of optional fields
DetailedRules ==
    {e @@ p @@ q @@ n :
        e \in Endpoints, p \in PortsFields, q \in ProtocolsFields, n \in NamespaceFields}

\* rules for intents of several rules: no optional field, or all of them
PlainRules ==
    {e @@ o :
        e \in Endpoints,
        o \in {EmptyDict,
               [ports |-> List(<<53>>), protocols |-> List(<<"UDP", "TCP">>),
                namespace |-> Str("web")]}}

RuleLists(rules, n) == UNION {[1..k -> rules] : k \in 0..n}

\* rules without from or to, next to one that has both
MalformedRules ==
    {EmptyDict, [from |-> Str("frontend")], [to |-> Str("backend")],
     [from |-> Str("frontend"), to |-> Str("frontend")]}

\* rules whose from or to is present and empty or None
BlankRules ==
    {[from |-> f, to |-> t] :
        f \in {Str(""), None, Str("frontend")}, t \in {Str(""), None, Str("backend")}}

\* l7_rules is omitted, None, empty, or holds HTTP rules
L7Fields ==
    {EmptyDict, [l7_rules |-> None], [l7_rules |-> Dict(EmptyDict)],
     [l7_rules |-> Dict([http |-> <<[method |-> "GET", path |-> "/api"]>>])]}

L7Rules ==
    {[from |-> Str("frontend"), to |-> Str("backend")] @@ p @@ l :
        p \in PortsFields, l \in L7Fields \ {EmptyDict}}

Intents ==
    {n @@ [name |-> Str("x"), rules |-> List(rs)] :
        n \in NamespaceFields, rs \in RuleLists(PlainRules, MaxRules)}
    \cup
    {n @@ [name |-> Str("x"), rules |-> List(<<r>>)] :
        n \in NamespaceFields, r \in DetailedRules}
    \cup
    {EmptyDict, [namespace |-> Str("web")]}
    \cup
    {[name |-> Str("x"), rules |-> List(rs)] :
        rs \in RuleLists(MalformedRules, MaxRules)}
    \cup
    {[name |-> Str("x"), rules |-> List(<<r>>)] : r \in BlankRules \cup L7Rules}
    \cup
    {[rules |-> List(<<r>>)] : r \in Endpoints}

\* the intents of the runs that call generate several times
CallIntents ==
    {[name |-> Str("x"), rules |-> List(<<r1, r2>>)] :
        r1 \in PlainRules, r2 \in PlainRules}
    \cup
    {[name |-> Str("x"), namespace |-> Str("default"), rules |-> List(<<r>>)] :
        r \in {d \in DetailedRules :
                  /\ d["from"] = Str("frontend") /\ d["to"] = Str("backend")
                  /\ Get(d, "namespace", None) # Str("default")}}
    \cup
    {[name |-> Str("x"), rules |-> List(<<r>>)] :
        r \in MalformedRules \cup BlankRules \cup L7Rules}

\* the intent of another request served between two calls
OtherIntents ==
    {[name |-> Str("y"), namespace |-> Str("web"),
      rules |-> List(<<[from |-> Str("backend"), to |-> Str("frontend")]>>)]}

Instances == {"g1", "g2"}

NoCall == [gen |-> "none"]

\* the instance main.py creates at import and its handlers share
policy_generator == "g1"

\* an intent_dict as the handler of /api/v1/policies/generate builds it from
\* the request model: every key present, from and to strings, the optional
\* fields None when the request gives null
ApiShaped(int) ==
    /\ DOMAIN int = {"name", "namespace", "rules"}
    /\ int["name"].t = "str"
    /\ int["namespace"].t \in {"str", "None"}
    /\ \A i \in 1..Len(int["rules"].v) :
          LET rule == int["rules"].v[i]
          IN  /\ DOMAIN rule = {"from", "to", "ports", "protocols", "namespace"}
              /\ rule["from"].t = "str" /\ rule["to"].t = "str"
              /\ rule["ports"].t \in {"list", "None"}
              /\ rule["protocols"].t \in {"list", "None"}
              /\ rule["namespace"].t \in {"str", "None"}

----------------------------------------------------------------------------
(* The state machine *)

\* PolicyGenerator.__init__ on every instance; nothing generated, validated or
\* stored yet.  Every intent of Intents is an input, and one call is made on
\* it: what an operation returns for an input is studied here, sequences of
\* calls under SpecCalls.
Init ==
    /\ intent \in Intents
    /\ generated_policies = [g \in Instances |-> <<>>]
    /\ now = 0
    /\ budget = 1
    /\ first = NoCall
    /\ ret = NoCall
    /\ validation = NoCall
    /\ cilium = NoCall
    /\ policies_store = <<>>
    /\ manifests = <<>> /\ yaml = NoCall
    /\ allowed_connections = <<>> /\ events = <<>>
    /\ registered = NoCall /\ drift_ret = NoCall
    /\ cluster = <<>> /\ broadcasts = <<>> /\ response = NoCall

\* what a call generate(int) on an instance holding `stored` gives its caller
GenerateCall(g, via, stored, int) ==
    IF GenerateRaises(int)
    THEN [gen |-> g, via |-> via, intent |-> int, at |-> now, raised |-> TRUE,
          policies |-> <<>>]
    ELSE [gen |-> g, via |-> via, intent |-> int, at |-> now, raised |-> FALSE,
          policies |-> GeneratePolicies(stored, int, now)]

\* one call g.generate(int); an exception leaves the instance as it was
Generate(g, int) ==
    /\ budget > 0
    /\ ret' = GenerateCall(g, "direct", generated_policies[g], int)
    /\ generated_policies' =
           IF ret'.raised THEN generated_policies
           ELSE StoreGenerated(generated_policies, g, ret'.policies)
    /\ first' = IF first = NoCall /\ int = intent THEN ret' ELSE first
    /\ intent' = IF int = intent THEN IntentAfterGenerate(intent) ELSE intent
    /\ now' = now + 1
    /\ budget' = budget - 1
    /\ UNCHANGED <<validation, cilium, policies_store>>
    /\ UNCHANGED <<yaml_vars, drift_vars, cluster_vars, response>>

\* POST /api/v1/policies/generate: generate on the shared instance, then the
\* result is stored under a new id (the uuid, here the clock reading, which
\* no earlier request had); an exception becomes a 500 response and nothing is
\* stored
PostGenerate ==
    /\ budget > 0
    /\ ApiShaped(intent)
    /\ ret' = GenerateCall(policy_generator, "api",
                           generated_policies[policy_generator], intent)
    /\ generated_policies' =
           IF ret'.raised THEN generated_policies
           ELSE StoreGenerated(generated_policies, policy_generator, ret'.policies)
    /\ policies_store' =
           IF ret'.raised THEN policies_store
           ELSE Append(policies_store,
                       [id |-> now, name |-> intent["name"], intent |-> intent,
                        policies |-> ret'.policies, created_at |-> now,
                        deployed |-> FALSE, namespace |-> intent["namespace"]])
    /\ response' =
           IF ret'.raised
           THEN [handler |-> "generate", status |-> 500]
           ELSE [handler |-> "generate", status |-> 200, policy_id |-> now]
    /\ first' = IF first = NoCall THEN ret' ELSE first
    /\ intent' = IntentAfterGenerate(intent)
    /\ now' = now + 1
    /\ budget' = budget - 1
    /\ UNCHANGED <<validation, cilium>>
    /\ UNCHANGED <<yaml_vars, drift_vars, cluster_vars>>

\* POST /generate: the legacy function makes a generator of its own, calls
\* generate on it and drops it
PostLegacy ==
    /\ budget > 0
    /\ ret' = GenerateCall("fresh", "legacy", <<>>, intent)
    /\ first' = IF first = NoCall THEN ret' ELSE first
    /\ intent' = IntentAfterGenerate(intent)
    /\ now' = now + 1
    /\ budget' = budget - 1
    /\ UNCHANGED <<generated_policies, validation, cilium, policies_store>>
    /\ UNCHANGED <<yaml_vars, drift_vars, cluster_vars, response>>

\* one call validate_intent(intent); it returns for every intent
Validate ==
    /\ budget > 0
    /\ validation' = ValidateIntent(intent)
    /\ intent' = IntentAfterValidate(intent)
    /\ budget' = budget - 1
    /\ UNCHANGED <<generated_policies, now, first, ret, cilium, policies_store>>
    /\ UNCHANGED <<yaml_vars, drift_vars, cluster_vars, response>>

\* one call g.generate_cilium_policy(intent), which reads no clock
GenerateCilium(g) ==
    /\ budget > 0
    /\ cilium' = IF GenerateCiliumPolicyRaises(intent)
                 THEN [at |-> now, raised |-> TRUE, policies |-> <<>>]
                 ELSE [at |-> now, raised |-> FALSE,
                       policies |-> GenerateCiliumPolicy(intent)]
    /\ generated_policies' =
           [generated_policies EXCEPT
               ![g] = StoredAfterCilium(@, cilium'.policies)]
    /\ intent' = IntentAfterCilium(intent)
    /\ budget' = budget - 1
    /\ UNCHANGED <<now, first, ret, validation, policies_store>>
    /\ UNCHANGED <<yaml_vars, drift_vars, cluster_vars, response>>

Next ==
    \/ \E g \in Instances : \E int \in {intent} \cup OtherIntents : Generate(g, int)
    \/ PostGenerate
    \/ PostLegacy
    \/ Validate
    \/ \E g \in Instances : GenerateCilium(g)

\* every input, one operation applied once
Spec == Init /\ [][Next]_vars

\* sequences of up to MaxCalls calls
InitCalls ==
    /\ intent \in CallIntents
    /\ generated_policies = [g \in Instances |-> <<>>]
    /\ now = 0
    /\ budget = MaxCalls
    /\ first = NoCall
    /\ ret = NoCall
    /\ validation = NoCall
    /\ cilium = NoCall
    /\ policies_store = <<>>
    /\ manifests = <<>> /\ yaml = NoCall
    /\ allowed_connections = <<>> /\ events = <<>>
    /\ registered = NoCall /\ drift_ret = NoCall
    /\ cluster = <<>> /\ broadcasts = <<>> /\ response = NoCall

SpecCalls == InitCalls /\ [][Next]_vars

----------------------------------------------------------------------------
(* The drift detector: inputs and state machine *)

MaxDriftRules == 2
MaxRequests == 4
MaxDocs == 3

\* rules between two services, one of them with a port filter
DriftRules ==
    {[from |-> Str("frontend"), to |-> Str("backend")],
     [from |-> Str("frontend"), to |-> Str("backend"),
      ports |-> List(<<53>>), protocols |-> List(<<"UDP", "TCP">>)],
     [from |-> Str("backend"), to |-> Str("frontend")]}

DriftIntents ==
    {[name |-> Str("x"), rules |-> List(rs)] : rs \in RuleLists(DriftRules, MaxDriftRules)}

\* the intent of the runs that follow the event log
EventIntents ==
    {[name |-> Str("x"),
      rules |-> List(<<[from |-> Str("frontend"), to |-> Str("backend")]>>)]}

\* observed connections
Connections ==
    {[source |-> Str("frontend"), destination |-> Str("backend"),
      port |-> 53, protocol |-> "UDP"],
     [source |-> Str("frontend"), destination |-> Str("backend"),
      port |-> 80, protocol |-> "TCP"],
     [source |-> Str("backend"), destination |-> Str("frontend"),
      port |-> 80, protocol |-> "TCP"]}

\* outcomes of random.randint(1000, 9999): two events of one second may get
\* the same id or different ids
Randoms == {1000, 9999}

\* an id no event has
NoEvent == [stamp |-> -1, n |-> 0]

\* outcomes of the random choices of simulate_events for one event
SimulatedEvents ==
    {[event_type |-> "suspicious_syscall", source_pod |-> "frontend-1",
      destination_pod |-> "backend-1", action |-> "logged",
      severity |-> "critical", hours |-> 1],
     [event_type |-> "unauthorized_connection", source_pod |-> "backend-2",
      destination_pod |-> "frontend-1", action |-> "blocked",
      severity |-> "high", hours |-> 0]}

\* the arguments get_events is called with: (limit, severity)
GetEventsArguments == {[limit |-> 100, severity |-> None], [limit |-> 1, severity |-> Str("high")]}

\* the variables the drift detector does not touch
drift_frame == <<intent, first, ret, validation, cilium, policies_store,
                 yaml_vars, cluster_vars, response>>

\* register_allowed_connections(generate(int)), generate on the shared generator
Register(int) ==
    /\ budget > 0
    /\ ~GenerateRaises(int)
    /\ generated_policies' =
           StoreGenerated(generated_policies, policy_generator,
                          GeneratePolicies(generated_policies[policy_generator], int, now))
    /\ allowed_connections' =
           RegisterAllowedConnections(allowed_connections,
                                      generated_policies'[policy_generator])
    /\ registered' = int
    /\ drift_ret' = [op |-> "register"]
    /\ now' = now + 1
    /\ budget' = budget - 1
    /\ UNCHANGED <<events, drift_frame>>

\* check_connection(source, destination, port, protocol)
Check(conn, random) ==
    /\ budget > 0
    /\ drift_ret' = [op |-> "check", conn |-> conn,
                     ret |-> CheckConnection(allowed_connections, conn, now, random)]
    /\ events' = IF drift_ret'.ret.allowed THEN events
                 ELSE Append(events, UnauthorizedConnection(conn, now, random))
    /\ budget' = budget - 1
    /\ UNCHANGED <<generated_policies, allowed_connections, registered, now, drift_frame>>

\* acknowledge_event(event_id)
AcknowledgeEvent(event_id) ==
    /\ budget > 0
    /\ drift_ret' = [op |-> "acknowledge", event_id |-> event_id,
                     ret |-> HasEvent(events, event_id)]
    /\ events' = IF HasEvent(events, event_id)
                 THEN [events EXCEPT ![FirstEvent(events, event_id)] = Acknowledged(@)]
                 ELSE events
    /\ budget' = budget - 1
    /\ UNCHANGED <<generated_policies, allowed_connections, registered, now, drift_frame>>

\* resolve_event(event_id)
ResolveEvent(event_id) ==
    /\ budget > 0
    /\ drift_ret' = [op |-> "resolve", event_id |-> event_id,
                     ret |-> HasEvent(events, event_id)]
    /\ events' = IF HasEvent(events, event_id)
                 THEN [events EXCEPT ![FirstEvent(events, event_id)] = Resolved(@)]
                 ELSE events
    /\ budget' = budget - 1
    /\ UNCHANGED <<generated_policies, allowed_connections, registered, now, drift_frame>>

\* get_events(limit, severity)
GetEvents(args) ==
    /\ budget > 0
    /\ drift_ret' = [op |-> "get_events", args |-> args,
                     ret |-> GetEventsReturn(events, args.limit, args.severity)]
    /\ events' = EventsAfterGetEvents(events)
    /\ budget' = budget - 1
    /\ UNCHANGED <<generated_policies, allowed_connections, registered, now, drift_frame>>

\* simulate_events(1)
SimulateEvents(choice, random) ==
    /\ budget > 0
    /\ events' = Append(events,
                        DriftEvent(choice.event_type, choice.source_pod,
                                   choice.destination_pod, choice.action,
                                   choice.severity, "Simulated drift event 1",
                                   now - choice.hours, now, random))
    /\ drift_ret' = [op |-> "simulate_events"]
    /\ budget' = budget - 1
    /\ UNCHANGED <<generated_policies, allowed_connections, registered, now, drift_frame>>

EventIds == {events[i].id : i \in 1..Len(events)} \cup {NoEvent}

NextDrift ==
    \/ \E int \in {intent} \cup OtherIntents : Register(int)
    \/ \E conn \in Connections : \E random \in Randoms : Check(conn, random)
    \/ \E event_id \in EventIds : AcknowledgeEvent(event_id)
    \/ \E event_id \in EventIds : ResolveEvent(event_id)
    \/ \E args \in GetEventsArguments : GetEvents(args)
    \/ \E choice \in SimulatedEvents : \E random \in Randoms : SimulateEvents(choice, random)

\* DriftDetector.__init__ and a generator; nothing registered, no events
InitDetector ==
    /\ generated_policies = [g \in Instances |-> <<>>]
    /\ now = 0
    /\ first = NoCall /\ ret = NoCall
    /\ validation = NoCall /\ cilium = NoCall
    /\ policies_store = <<>>
    /\ manifests = <<>> /\ yaml = NoCall
    /\ allowed_connections = <<>> /\ events = <<>>
    /\ registered = NoCall /\ drift_ret = NoCall
    /\ cluster = <<>> /\ broadcasts = <<>> /\ response = NoCall

\* every drift intent, two detector calls: a registration and what follows it
InitDrift == intent \in DriftIntents /\ budget = 2 /\ InitDetector

SpecDrift == InitDrift /\ [][NextDrift]_vars

\* one intent, sequences of up to MaxCalls detector calls
InitEvents == intent \in EventIntents /\ budget = MaxCalls /\ InitDetector

SpecEvents == InitEvents /\ [][NextDrift]_vars

----------------------------------------------------------------------------
(* The policy store of main.py: generate, deploy, get and delete requests *)

\* intents as the generate handler builds them
StoreIntents ==
    {[name |-> Str("x"), namespace |-> n,
      rules |-> List(<<[from |-> Str("frontend"), to |-> Str("backend"),
                        ports |-> None, protocols |-> List(<<"TCP">>),
                        namespace |-> Str("default")]>>)] :
        n \in {Str("default"), Str("web")}}

\* the namespace of a deploy request
DeployNamespaces == {Str("default"), Str("web")}

\* a policy_id no generate request was answered with
NoPolicy == -1

StoreIds == {policies_store[i].id : i \in 1..Len(policies_store)}

RequestIds == StoreIds \cup {NoPolicy}

StoreIndex(policy_id) ==
    CHOOSE i \in 1..Len(policies_store) : policies_store[i].id = policy_id

\* what kubectl does to the manifests of one call: all applied, the first
\* refused, or every one refused (no cluster, no kubectl)
ApplyOutcomes(pols) == {{}, {1}, 1..Len(pols)}

\* KubernetesClient.apply_policies: the names applied and the names that failed
ApplyPolicies(pols, failed) ==
    [success |-> SelectSeq([k \in 1..Len(pols) |-> IF k \in failed THEN "" ELSE
                                                    pols[k].metadata.name],
                           LAMBDA name : name # ""),
     failed |-> SelectSeq([k \in 1..Len(pols) |-> IF k \in failed THEN
                                                   pols[k].metadata.name ELSE ""],
                          LAMBDA name : name # "")]

\* the variables the store handlers do not touch
store_frame == <<intent, generated_policies, first, ret, validation, cilium,
                 yaml_vars, drift_vars>>

\* POST /api/v1/policies/deploy for an id that is not stored: the 404 raised
\* inside the try block is an Exception, so the handler answers 500
DeployUnknown(policy_id) ==
    /\ budget > 0
    /\ policy_id \notin StoreIds
    /\ response' = [handler |-> "deploy", policy_id |-> policy_id,
                    status |-> 500, detail |-> "404: Policy not found"]
    /\ budget' = budget - 1
    /\ UNCHANGED <<policies_store, cluster, broadcasts, now, store_frame>>

\* POST /api/v1/policies/deploy for a stored id
Deploy(policy_id, namespace, failed) ==
    /\ budget > 0
    /\ policy_id \in StoreIds
    /\ cluster' = Append(cluster,
                         [op |-> "apply", policy_id |-> policy_id,
                          namespace |-> namespace,
                          results |-> ApplyPolicies(
                              policies_store[StoreIndex(policy_id)].policies, failed)])
    /\ policies_store' =
           [policies_store EXCEPT ![StoreIndex(policy_id)] =
               [deployed_at |-> now] @@ [@ EXCEPT !.deployed = TRUE]]
    /\ broadcasts' = Append(broadcasts,
                            [type |-> "policy_deployed", policy_id |-> policy_id,
                             timestamp |-> now])
    /\ response' = [handler |-> "deploy", policy_id |-> policy_id, status |-> 200,
                    deployment_results |-> cluster'[Len(cluster')].results]
    /\ now' = now + 1
    /\ budget' = budget - 1
    /\ UNCHANGED store_frame

\* GET /api/v1/policies/{policy_id}
GetPolicy(policy_id) ==
    /\ budget > 0
    /\ response' =
           IF policy_id \notin StoreIds
           THEN [handler |-> "get", policy_id |-> policy_id,
                 status |-> 404, detail |-> "Policy not found"]
           ELSE [handler |-> "get", policy_id |-> policy_id, status |-> 200,
                 body |-> policies_store[StoreIndex(policy_id)]]
    /\ budget' = budget - 1
    /\ UNCHANGED <<policies_store, cluster, broadcasts, now, store_frame>>

\* DELETE /api/v1/policies/{policy_id}
DeletePolicy(policy_id) ==
    /\ budget > 0
    /\ response' =
           IF policy_id \notin StoreIds
           THEN [handler |-> "delete", policy_id |-> policy_id,
                 status |-> 404, detail |-> "Policy not found"]
           ELSE [handler |-> "delete", policy_id |-> policy_id, status |-> 200]
    /\ cluster' =
           IF policy_id \in StoreIds /\ policies_store[StoreIndex(policy_id)].deployed
           THEN Append(cluster,
                       [op |-> "delete", policy_id |-> policy_id,
                        namespace |-> policies_store[StoreIndex(policy_id)].namespace])
           ELSE cluster
    /\ policies_store' =
           SelectSeq(policies_store, LAMBDA entry : entry.id # policy_id)
    /\ budget' = budget - 1
    /\ UNCHANGED <<broadcasts, now, store_frame>>

NextStore ==
    \/ PostGenerate
    \/ \E policy_id \in RequestIds : DeployUnknown(policy_id)
    \/ \E policy_id \in RequestIds : \E namespace \in DeployNamespaces :
          \E failed \in ApplyOutcomes(
                 IF policy_id \in StoreIds
                 THEN policies_store[StoreIndex(policy_id)].policies ELSE <<>>) :
              Deploy(policy_id, namespace, failed)
    \/ \E policy_id \in RequestIds : GetPolicy(policy_id)
    \/ \E policy_id \in RequestIds : DeletePolicy(policy_id)

\* the module as imported; sequences of up to MaxRequests requests
InitStore == intent \in StoreIntents /\ budget = MaxRequests /\ InitDetector

SpecStore == InitStore /\ [][NextStore]_vars

----------------------------------------------------------------------------
(* Vocabulary of the properties *)

Returned == ret # NoCall /\ ~ret.raised

RetRules == IntentRules(ret.intent)

WellFormed(rules) ==
    \A i \in 1..Len(rules) : {"from", "to"} \subseteq DOMAIN rules[i]

\* every rule has from and to, and they are strings
Named(rules) ==
    \A i \in 1..Len(rules) :
        /\ {"from", "to"} \subseteq DOMAIN rules[i]
        /\ rules[i]["from"].t = "str" /\ rules[i]["to"].t = "str"

Column(rules, key) == [i \in 1..Len(rules) |-> rules[i][key]]

\* the distinct values of a sequence in order of first occurrence
FirstSeen(vals) ==
    LET firsts == {i \in 1..Len(vals) : \A j \in 1..(i - 1) : vals[j] # vals[i]}
    IN  [k \in 1..Cardinality(firsts) |->
            vals[CHOOSE i \in firsts : Cardinality({j \in firsts : j < i}) = k - 1]]

Range(seq) == {seq[i] : i \in 1..Len(seq)}

PolicyType(m) == m.metadata.labels["policy-type"]

Targets(m, service) == m.spec.podSelector = [matchLabels |-> [app |-> service]]

PoliciesOfType(type) ==
    {k \in 1..Len(ret.policies) : PolicyType(ret.policies[k]) = type}

\* C1: completeness -- when every rule carries from and to, the returned list
\* has exactly one ingress manifest targeting each distinct `to`, exactly one
\* egress manifest targeting each distinct `from`, and no ingress (egress)
\* manifest for a service that is not the `to` (`from`) of some rule.
C1_Completeness ==
    (Returned /\ WellFormed(RetRules)) =>
        LET tos == Range(Column(RetRules, "to"))
            froms == Range(Column(RetRules, "from"))
        IN  /\ \A t \in tos :
                 Cardinality({k \in PoliciesOfType("ingress") :
                                 Targets(ret.policies[k], t)}) = 1
            /\ \A f \in froms :
                 Cardinality({k \in PoliciesOfType("egress") :
                                 Targets(ret.policies[k], f)}) = 1
            /\ \A k \in PoliciesOfType("ingress") :
                 \E t \in tos : Targets(ret.policies[k], t)
            /\ \A k \in PoliciesOfType("egress") :
                 \E f \in froms : Targets(ret.policies[k], f)

\* three rules, one destination named twice and one source named twice
C1_Witness ==
    /\ Returned
    /\ Len(RetRules) = 3
    /\ Cardinality(Range(Column(RetRules, "to"))) = 2
    /\ Cardinality(Range(Column(RetRules, "from"))) = 2
    /\ Cardinality(PoliciesOfType("ingress")) = 2
    /\ Cardinality(PoliciesOfType("egress")) = 2

\* C2: canonical order -- the default-deny manifest is first, then the ingress
\* manifests in the order their destinations first appear in rules, then the
\* egress manifests in the order their sources first appear in rules.
C2_CanonicalOrder ==
    (Returned /\ WellFormed(RetRules)) =>
        LET dests == FirstSeen(Column(RetRules, "to"))
            sources == FirstSeen(Column(RetRules, "from"))
            p == ret.policies
        IN  /\ Len(p) = 1 + Len(dests) + Len(sources)
            /\ PolicyType(p[1]) = "default-deny"
            /\ \A k \in 1..Len(dests) :
                 PolicyType(p[1 + k]) = "ingress" /\ Targets(p[1 + k], dests[k])
            /\ \A k \in 1..Len(sources) :
                 /\ PolicyType(p[1 + Len(dests) + k]) = "egress"
                 /\ Targets(p[1 + Len(dests) + k], sources[k])

\* destinations first seen as frontend, backend and sources as backend, frontend:
\* neither alphabetical order nor the same order on both sides
C2_Witness ==
    /\ Returned
    /\ FirstSeen(Column(RetRules, "to")) = <<Str("frontend"), Str("backend")>>
    /\ FirstSeen(Column(RetRules, "from")) = <<Str("backend"), Str("frontend")>>
    /\ Len(RetRules) = 3
    /\ Len(ret.policies) = 5

\* a manifest list without the generated-at annotations
StripTimestamps(policies) ==
    [k \in 1..Len(policies) |->
        [policies[k] EXCEPT !.metadata.annotations =
            [a \in DOMAIN @ \ {"generated-at"} |-> @[a]]]]

\* C3: idempotence -- a call of generate on the unchanged intent returns what the
\* first such call returned, up to the generated-at annotations: same outcome,
\* same length, same order, same fields, on either instance and whatever calls
\* were made in between.
C3_Idempotence ==
    (first # NoCall /\ ret # NoCall /\ ret.intent = intent) =>
        /\ ret.raised = first.raised
        /\ StripTimestamps(ret.policies) = StripTimestamps(first.policies)

\* the third call repeats the first on the other instance, after a call for
\* another intent on the first instance; the two returns differ in timestamps
C3_Witness ==
    /\ first # NoCall /\ ret # NoCall
    /\ ~first.raised
    /\ ret.intent = intent
    /\ first.gen \in Instances /\ ret.gen \in Instances
    /\ ret.gen # first.gen
    /\ ret.at >= first.at + 2
    /\ ret.policies # first.policies
    /\ Len(ret.policies) >= 4
    /\ generated_policies[first.gen] # <<>>
    /\ StripTimestamps(generated_policies[first.gen]) # StripTimestamps(first.policies)

EgressEntriesOf(k) == ret.policies[k].spec.egress

\* C4: DNS invariant -- in every egress manifest the last entry of spec.egress
\* has an empty peer list and ports 53/UDP, 53/TCP in that order, and no other
\* entry of the manifest has an empty peer list, however many rules the source
\* has and also when a rule of it targets port 53.
C4_DnsInvariant ==
    Returned =>
        \A k \in PoliciesOfType("egress") :
            LET e == EgressEntriesOf(k)
            IN  /\ Len(e) >= 1
                /\ e[Len(e)]["to"] = <<>>
                /\ "ports" \in DOMAIN e[Len(e)]
                /\ e[Len(e)]["ports"] = <<[port |-> 53, protocol |-> "UDP"],
                                          [port |-> 53, protocol |-> "TCP"]>>
                /\ \A i \in 1..(Len(e) - 1) : e[i]["to"] # <<>>

\* an egress manifest of a source with two rules, one of them to port 53 over
\* UDP and TCP: its ports equal those of the DNS entry that follows
C4_Witness ==
    /\ Returned
    /\ \E k \in PoliciesOfType("egress") :
          LET e == EgressEntriesOf(k)
          IN  /\ Len(e) = 3
              /\ \E i \in 1..2 :
                    "ports" \in DOMAIN e[i] /\ e[i]["ports"] = e[3]["ports"]

\* the namespace generate compiles the intent for
IntentNamespace(int) ==
    IF "namespace" \in DOMAIN int THEN int["namespace"] ELSE Str("default")

\* the position, within its group, of rule i among the rules that agree on key
RankInGroup(rules, i, key) ==
    Cardinality({j \in 1..i : rules[j][key] = rules[i][key]})

ManifestFor(type, service) ==
    ret.policies[CHOOSE k \in PoliciesOfType(type) : Targets(ret.policies[k], service)]

\* the ingress entry and the egress entry generated from rule i
IngressEntryOf(i) ==
    ManifestFor("ingress", RetRules[i]["to"]).spec.ingress[RankInGroup(RetRules, i, "to")]

EgressEntryOf(i) ==
    ManifestFor("egress", RetRules[i]["from"]).spec.egress[RankInGroup(RetRules, i, "from")]

IngressPeerOf(i) == IngressEntryOf(i)["from"][1]

EgressPeerOf(i) == EgressEntryOf(i)["to"][1]

\* the peer selector crosses into namespace ns / stays in the policy's namespace
CrossesInto(peer, ns) ==
    /\ "namespaceSelector" \in DOMAIN peer
    /\ peer["namespaceSelector"] = [matchLabels |-> [name |-> ns]]

SameNamespace(peer) == "namespaceSelector" \notin DOMAIN peer

\* C5: namespace crossing with an explicit rule namespace -- for every rule that
\* carries a namespace field, the peer selector of its ingress entry and of its
\* egress entry has no namespaceSelector when the rule namespace equals the
\* intent namespace and has namespaceSelector name = rule namespace otherwise.
C5_ExplicitNamespace ==
    (Returned /\ WellFormed(RetRules)) =>
        \A i \in 1..Len(RetRules) :
            "namespace" \in DOMAIN RetRules[i] =>
                LET ns == RetRules[i]["namespace"]
                IN  IF ns = IntentNamespace(ret.intent)
                    THEN SameNamespace(IngressPeerOf(i)) /\ SameNamespace(EgressPeerOf(i))
                    ELSE CrossesInto(IngressPeerOf(i), ns) /\ CrossesInto(EgressPeerOf(i), ns)

\* an intent for namespace web with a rule for namespace default: both entries
\* of the rule select namespace default
C5_Witness ==
    /\ Returned
    /\ \E i \in 1..Len(RetRules) :
          /\ "namespace" \in DOMAIN RetRules[i]
          /\ IntentNamespace(ret.intent) = Str("web")
          /\ RetRules[i]["namespace"] = Str("default")
          /\ CrossesInto(IngressPeerOf(i), Str("default"))
          /\ CrossesInto(EgressPeerOf(i), Str("default"))

\* C6: default rule namespace -- a rule that omits namespace resolves to the
\* intent namespace, so neither its ingress entry nor its egress entry carries
\* a namespaceSelector, whatever the intent namespace is.
C6_DefaultRuleNamespace ==
    (Returned /\ WellFormed(RetRules)) =>
        \A i \in 1..Len(RetRules) :
            "namespace" \notin DOMAIN RetRules[i] =>
                SameNamespace(IngressPeerOf(i)) /\ SameNamespace(EgressPeerOf(i))

\* a rule's ports are omitted, None or an empty list
NoPorts(rule) ==
    \/ "ports" \notin DOMAIN rule
    \/ rule["ports"] = None
    \/ rule["ports"] = List(<<>>)

\* the protocols of a rule, TCP when the key is omitted
ProtocolsOf(rule) ==
    IF "protocols" \in DOMAIN rule THEN rule["protocols"].v ELSE <<"TCP">>

\* entry ports are ports x protocols, ports outer and protocols inner
IsExpansion(entry, ports, protocols) ==
    /\ "ports" \in DOMAIN entry
    /\ Len(entry["ports"]) = Len(ports) * Len(protocols)
    /\ \A a \in 1..Len(ports) : \A b \in 1..Len(protocols) :
          entry["ports"][(a - 1) * Len(protocols) + b] =
              [port |-> ports[a], protocol |-> protocols[b]]

\* C7: port expansion -- for every rule with a non-empty ports list, the ports
\* of its ingress entry and of its egress entry are ports x protocols (protocols
\* being [TCP] when omitted), ports outer and protocols inner: |ports|*|protocols|
\* elements, element i*|protocols|+j being (ports[i], protocols[j]).
C7_PortExpansion ==
    (Returned /\ WellFormed(RetRules)) =>
        \A i \in 1..Len(RetRules) :
            ~NoPorts(RetRules[i]) =>
                /\ IsExpansion(IngressEntryOf(i), RetRules[i]["ports"].v,
                               ProtocolsOf(RetRules[i]))
                /\ IsExpansion(EgressEntryOf(i), RetRules[i]["ports"].v,
                               ProtocolsOf(RetRules[i]))

\* ports [80, 443] with protocols [UDP, TCP]: four elements on both sides
C7_Witness ==
    /\ Returned
    /\ Len(RetRules) = 1
    /\ ~NoPorts(RetRules[1])
    /\ RetRules[1]["ports"].v = <<80, 443>>
    /\ ProtocolsOf(RetRules[1]) = <<"UDP", "TCP">>
    /\ Len(IngressEntryOf(1)["ports"]) = 4
    /\ Len(EgressEntryOf(1)["ports"]) = 4

\* C8: absent ports never raise -- generate completes on an intent whose rules
\* all name their from and to and have ports omitted, None or empty, whatever
\* their other optional fields hold; and whenever generate completes, the ingress entry and
\* the egress entry of such a rule carry no ports key.
C8_AbsentPorts ==
    (ret # NoCall /\ Named(RetRules)) =>
        /\ (\A i \in 1..Len(RetRules) : NoPorts(RetRules[i])) => ~ret.raised
        /\ ~ret.raised =>
              \A i \in 1..Len(RetRules) :
                  NoPorts(RetRules[i]) =>
                      /\ "ports" \notin DOMAIN IngressEntryOf(i)
                      /\ "ports" \notin DOMAIN EgressEntryOf(i)

\* a rule with ports an empty list and protocols None: generate returns and both
\* entries of the rule are without ports
C8_Witness ==
    /\ Returned
    /\ Len(RetRules) = 1
    /\ "ports" \in DOMAIN RetRules[1] /\ RetRules[1]["ports"] = List(<<>>)
    /\ "protocols" \in DOMAIN RetRules[1] /\ RetRules[1]["protocols"] = None
    /\ DOMAIN IngressEntryOf(1) = {"from"}
    /\ DOMAIN EgressEntryOf(1) = {"to"}

\* the rules that agree with `service` on key, in rule order
GroupOf(rules, key, service) == SelectSeq(rules, LAMBDA r : r[key] = service)

IngressPeerApps(m) ==
    [k \in 1..Len(m.spec.ingress) |->
        m.spec.ingress[k]["from"][1].podSelector.matchLabels.app]

\* the peers of the entries before the trailing DNS entry
EgressPeerApps(m) ==
    [k \in 1..(Len(m.spec.egress) - 1) |->
        m.spec.egress[k]["to"][1].podSelector.matchLabels.app]

\* C9 as stated: the ingress manifest for destination d has exactly one entry
\* per distinct source naming d, in first-seen order, also when the same
\* from->to pair appears in several rules.
C9_OnePerDistinctSource ==
    (Returned /\ WellFormed(RetRules)) =>
        \A d \in Range(Column(RetRules, "to")) :
            IngressPeerApps(ManifestFor("ingress", d)) =
                FirstSeen(Column(GroupOf(RetRules, "to", d), "from"))

\* C9 (amended): the ingress manifest for destination d has exactly one entry
\* per rule naming d, in rule order, entry k selecting the source of the k-th
\* such rule; so every distinct source has an entry, first entries come in
\* first-seen order, and a from->to pair that appears in n rules has n entries.
C9_OnePerRule ==
    (Returned /\ WellFormed(RetRules)) =>
        \A d \in Range(Column(RetRules, "to")) :
            LET peers == IngressPeerApps(ManifestFor("ingress", d))
                sources == Column(GroupOf(RetRules, "to", d), "from")
            IN  peers = sources

\* three rules to one destination, the first and the third from the same
\* source: three entries for two distinct sources
C9_Witness ==
    /\ Returned
    /\ Len(RetRules) = 3
    /\ \E d \in Range(Column(RetRules, "to")) :
          LET peers == IngressPeerApps(ManifestFor("ingress", d))
          IN  /\ Len(peers) = 3
              /\ peers[1] = peers[3]
              /\ peers[1] # peers[2]

\* C10 as stated: the egress manifest for source s has, before the trailing DNS
\* entry, exactly one entry per distinct destination named by s, in first-seen
\* order.
C10_OnePerDistinctDestination ==
    (Returned /\ WellFormed(RetRules)) =>
        \A f \in Range(Column(RetRules, "from")) :
            EgressPeerApps(ManifestFor("egress", f)) =
                FirstSeen(Column(GroupOf(RetRules, "from", f), "to"))

\* C10 (amended): the egress manifest for source s has, before the trailing DNS
\* entry, exactly one entry per rule of s, in rule order, entry k selecting the
\* destination of the k-th such rule; so every distinct destination has an
\* entry, first entries come in first-seen order, and a from->to pair that
\* appears in n rules has n entries.
C10_OnePerRule ==
    (Returned /\ WellFormed(RetRules)) =>
        \A f \in Range(Column(RetRules, "from")) :
            LET m == ManifestFor("egress", f)
                peers == EgressPeerApps(m)
                dests == Column(GroupOf(RetRules, "from", f), "to")
            IN  /\ Len(m.spec.egress) = Len(dests) + 1
                /\ peers = dests

\* three rules of one source, the first and the third to the same destination:
\* three entries and the DNS entry for two distinct destinations
C10_Witness ==
    /\ Returned
    /\ Len(RetRules) = 3
    /\ \E f \in Range(Column(RetRules, "from")) :
          LET m == ManifestFor("egress", f)
              peers == EgressPeerApps(m)
          IN  /\ Len(m.spec.egress) = 4
              /\ peers[1] = peers[3]
              /\ peers[1] # peers[2]

\* the namespaces an intent refers to: its own and those its rules carry
ReferencedNamespaces(int) ==
    {IntentNamespace(int)} \cup
    {IntentRules(int)[i]["namespace"] :
        i \in {j \in 1..Len(IntentRules(int)) : "namespace" \in DOMAIN IntentRules(int)[j]}}

DefaultDenyIn(ns) ==
    {k \in PoliciesOfType("default-deny") : ret.policies[k].metadata.namespace = ns}

\* C11 as stated: the returned list has exactly one default-deny manifest for
\* each distinct namespace referenced by the intent (its own namespace and
\* every rule namespace), and these precede all allow manifests.
C11_DefaultDenyPerNamespace ==
    Returned =>
        /\ \A ns \in ReferencedNamespaces(ret.intent) : Cardinality(DefaultDenyIn(ns)) = 1
        /\ \A k \in PoliciesOfType("default-deny") :
              \A a \in PoliciesOfType("ingress") \cup PoliciesOfType("egress") : k < a

\* C11 (amended): the returned list has exactly one default-deny manifest, the
\* one for the intent namespace ("default" when the intent has none), at the
\* head of the list before all allow manifests; a namespace that only a rule
\* refers to has no default-deny manifest.
C11_OneDefaultDeny ==
    Returned =>
        /\ PoliciesOfType("default-deny") = {1}
        /\ DefaultDenyIn(IntentNamespace(ret.intent)) = {1}
        /\ \A ns \in ReferencedNamespaces(ret.intent) \ {IntentNamespace(ret.intent)} :
              DefaultDenyIn(ns) = {}
        /\ \A a \in 2..Len(ret.policies) :
              PolicyType(ret.policies[a]) \in {"ingress", "egress"}

\* an intent for namespace default with a rule from namespace web: one
\* default-deny manifest, for default, followed by the allow manifests
C11_Witness ==
    /\ Returned
    /\ IntentNamespace(ret.intent) = Str("default")
    /\ Str("web") \in ReferencedNamespaces(ret.intent)
    /\ Len(ret.policies) >= 3
    /\ DefaultDenyIn(Str("default")) = {1}
    /\ DefaultDenyIn(Str("web")) = {}

----------------------------------------------------------------------------
(* validate_intent *)

Validated == validation # NoCall

\* the required fields a rule lacks
MissingFields(rule) == {"from", "to"} \ DOMAIN rule

\* how many errors the rules before the one at position i account for
ErrorsBefore(rules, i) ==
    Cardinality({<<j, f>> \in (1..(i - 1)) \X {"from", "to"} : f \in MissingFields(rules[j])})

\* C12: missing rules field -- for an intent without a `rules` key
\* validate_intent returns valid = false and exactly one error, which names the
\* missing rules field; for an intent whose `rules` is an empty list it returns
\* valid = true and no errors.
C12_MissingRulesField ==
    Validated =>
        /\ "rules" \notin DOMAIN intent =>
              /\ validation.valid = FALSE
              /\ validation.errors = <<"Missing 'rules' field in intent">>
        /\ ("rules" \in DOMAIN intent /\ intent["rules"] = List(<<>>)) =>
              /\ validation.valid = TRUE
              /\ validation.errors = <<>>

\* an intent that has a namespace and no rules key was validated
C12_Witness ==
    /\ Validated
    /\ DOMAIN intent = {"namespace"}
    /\ ~validation.valid
    /\ Len(validation.errors) = 1

\* C13: validation reports every problem -- for an intent with a rules list,
\* the errors are one per missing `from` and one per missing `to` over all
\* rules, in rule order (from before to within a rule), each naming the rule
\* by its index from 0; and valid is true exactly when there are no errors.
C13_EveryProblem ==
    (Validated /\ "rules" \in DOMAIN intent) =>
        LET rules == IntentRules(intent)
            errors == validation.errors
        IN  /\ Len(errors) = ErrorsBefore(rules, Len(rules) + 1)
            /\ \A i \in 1..Len(rules) :
                  /\ "from" \notin DOMAIN rules[i] =>
                        errors[ErrorsBefore(rules, i) + 1] =
                            "Rule " \o ToString(i - 1) \o ": Missing 'from' field"
                  /\ "to" \notin DOMAIN rules[i] =>
                        errors[ErrorsBefore(rules, i + 1)] =
                            "Rule " \o ToString(i - 1) \o ": Missing 'to' field"
            /\ validation.valid <=> (errors = <<>>)

\* three rules, the first and the last without from and to, the second with
\* both: four errors, none of them for rule 1
C13_Witness ==
    /\ Validated
    /\ Len(IntentRules(intent)) = 3
    /\ MissingFields(IntentRules(intent)[2]) = {}
    /\ ~validation.valid
    /\ validation.errors =
          <<"Rule 0: Missing 'from' field", "Rule 0: Missing 'to' field",
            "Rule 2: Missing 'from' field", "Rule 2: Missing 'to' field">>

\* C14: non-empty endpoints -- an intent for which validate_intent returns
\* valid = true has, in each of its rules, a `from` and a `to` that are
\* non-empty strings.
C14_NonEmptyEndpoints ==
    (Validated /\ validation.valid) =>
        \A i \in 1..Len(IntentRules(intent)) :
            LET rule == IntentRules(intent)[i]
            IN  /\ MissingFields(rule) = {}
                /\ rule["from"].t = "str" /\ rule["from"].v # ""
                /\ rule["to"].t = "str" /\ rule["to"].v # ""

\* C15: totality after validation -- generate called on an intent for which
\* validate_intent returned valid = true returns a manifest list and does not
\* raise.
C15_TotalAfterValidation ==
    (Validated /\ validation.valid /\ ret # NoCall /\ ret.intent = intent) =>
        /\ ~ret.raised
        /\ Len(ret.policies) >= 1

\* C16: validate before generate -- a request handler invokes generate on an
\* intent only when validate_intent has returned valid = true for it.
C16_ValidateBeforeGenerate ==
    [][(ret' # ret /\ ret'.via \in {"api", "legacy"}) =>
          (Validated /\ validation.valid)]_vars

----------------------------------------------------------------------------
(* State of the generator and of its inputs *)

C18_InputNotMutated == [][intent' = intent]_vars

\* all three operations were applied to an intent that omits its namespace and
\* whose rules omit their optional fields
C18_Witness ==
    /\ Validated
    /\ cilium # NoCall /\ ~cilium.raised
    /\ Returned /\ ret.intent = intent
    /\ "namespace" \notin DOMAIN intent
    /\ Len(IntentRules(intent)) = 2
    /\ \A i \in 1..2 : DOMAIN IntentRules(intent)[i] = {"from", "to"}

----------------------------------------------------------------------------
(* generate_cilium_policy *)

CiliumReturned == cilium # NoCall /\ ~cilium.raised

\* the intent with l7_rules taken out of every rule
WithoutL7(int) ==
    IF "rules" \notin DOMAIN int THEN int
    ELSE [int EXCEPT !["rules"] =
             List([i \in 1..Len(int["rules"].v) |->
                      [k \in DOMAIN int["rules"].v[i] \ {"l7_rules"} |->
                          int["rules"].v[i][k]]])]

\* generate on the intent gives what it gives without l7_rules, and what it
\* gave before generate_cilium_policy was called
BaselineUnaltered ==
    (ret # NoCall /\ ret.intent = intent) =>
        /\ ret.raised = GenerateRaises(WithoutL7(intent))
        /\ ~ret.raised =>
              StripTimestamps(ret.policies) =
                  StripTimestamps(GeneratePolicies(<<>>, WithoutL7(intent), 0))
        /\ (first # NoCall /\ cilium # NoCall
            /\ first.at < cilium.at /\ cilium.at <= ret.at) =>
              /\ ret.raised = first.raised
              /\ StripTimestamps(ret.policies) = StripTimestamps(first.policies)

\* C19: the L7 variant is additive -- a call to generate_cilium_policy leaves
\* what generate returned before and the stored generated_policies of every
\* instance unchanged; and generate on the same intent returns the same
\* baseline manifests, up to timestamps, whether or not generate_cilium_policy
\* was called before it and whether or not the rules carry l7_rules.
C19_Additive ==
    /\ []BaselineUnaltered
    /\ [][cilium' # cilium =>
             /\ ret' = ret /\ first' = first
             /\ generated_policies' = generated_policies]_vars

\* generate, then generate_cilium_policy, then generate again, for a rule with
\* HTTP rules: an L7 manifest with toPorts was made in between and the instance
\* still holds a baseline list
C19_Witness ==
    /\ Returned /\ ret.intent = intent
    /\ first # NoCall /\ ~first.raised
    /\ CiliumReturned
    /\ first.at < cilium.at /\ cilium.at <= ret.at
    /\ Truthy(Get(IntentRules(intent)[1], "l7_rules", None))
    /\ "toPorts" \in DOMAIN cilium.policies[1].spec.ingress[1]
    /\ first.gen \in Instances
    /\ StripTimestamps(generated_policies[first.gen]) = StripTimestamps(first.policies)
    /\ Len(first.policies) = 3

\* C20 as stated: generate_cilium_policy groups the rules by destination and
\* returns one manifest per distinct destination, in first-seen order.
C20_OnePerDestination ==
    (CiliumReturned /\ WellFormed(IntentRules(intent))) =>
        LET dests == FirstSeen(Column(IntentRules(intent), "to"))
        IN  /\ Len(cilium.policies) = Len(dests)
            /\ \A k \in 1..Len(dests) :
                  cilium.policies[k].spec.endpointSelector =
                      [matchLabels |-> [app |-> dests[k]]]

\* C20 (amended): generate_cilium_policy does not group -- it returns one
\* manifest per rule, in rule order, the manifest of a rule selecting the
\* rule's `to` and admitting the rule's `from`; two rules with the same `to`
\* give two manifests.
C20_OnePerRuleInOrder ==
    CiliumReturned =>
        LET rules == IntentRules(intent)
        IN  /\ Len(cilium.policies) = Len(rules)
            /\ \A i \in 1..Len(rules) :
                  LET m == cilium.policies[i]
                  IN  /\ m.kind = "CiliumNetworkPolicy"
                      /\ m.spec.endpointSelector = [matchLabels |-> [app |-> rules[i]["to"]]]
                      /\ Len(m.spec.ingress) = 1
                      /\ m.spec.ingress[1].fromEndpoints =
                             <<[matchLabels |-> [app |-> rules[i]["from"]]]>>
                      /\ m.metadata.namespace = IntentNamespace(intent)

\* three rules, the first and the third to the same destination from
\* different sources: three manifests
C20_Witness ==
    /\ CiliumReturned
    /\ Len(IntentRules(intent)) = 3
    /\ IntentRules(intent)[1]["to"] = IntentRules(intent)[3]["to"]
    /\ IntentRules(intent)[1]["from"] # IntentRules(intent)[3]["from"]
    /\ IntentRules(intent)[1]["to"] # IntentRules(intent)[2]["to"]
    /\ Len(cilium.policies) = 3

----------------------------------------------------------------------------
(* Shape of the manifests *)

\* strs joined with commas, built from the left
RECURSIVE CommaJoined(_)
CommaJoined(strs) ==
    IF strs = <<>> THEN ""
    ELSE IF Len(strs) = 1 THEN strs[1]
    ELSE CommaJoined(SubSeq(strs, 1, Len(strs) - 1)) \o "," \o strs[Len(strs)]

\* C23: per-rule ingress entries and traceability -- the ingress manifest for
\* destination d has one ingress entry for each rule with to = d, in rule
\* order, entry k selecting app = from of the k-th such rule; its
\* allowed-sources annotation is the comma-joined from values of those rules in
\* the same order, and its intent label is the intent name, "generated" when
\* the intent has no name.
C23_EntriesAndAnnotation ==
    (Returned /\ WellFormed(RetRules)) =>
        \A d \in Range(Column(RetRules, "to")) :
            LET m == ManifestFor("ingress", d)
                group == GroupOf(RetRules, "to", d)
            IN  /\ Len(m.spec.ingress) = Len(group)
                /\ \A k \in 1..Len(group) :
                      m.spec.ingress[k]["from"][1].podSelector =
                          [matchLabels |-> [app |-> group[k]["from"]]]
                /\ m.metadata.annotations["allowed-sources"] =
                      CommaJoined([k \in 1..Len(group) |-> group[k]["from"].v])
                /\ m.metadata.labels["intent"] =
                      (IF "name" \in DOMAIN ret.intent THEN ret.intent["name"]
                       ELSE Str("generated"))

\* three rules to backend, from frontend, backend and frontend again
C23_Witness ==
    /\ Returned
    /\ Column(RetRules, "to") = <<Str("backend"), Str("backend"), Str("backend")>>
    /\ ManifestFor("ingress", Str("backend")).metadata.annotations["allowed-sources"] =
          "frontend,backend,frontend"
    /\ Len(ManifestFor("ingress", Str("backend")).spec.ingress) = 3
    /\ ManifestFor("ingress", Str("backend")).metadata.labels["intent"] = Str("x")

\* C24: default-deny shape -- whenever generate returns, also for an intent
\* with an empty or missing rules list, the first manifest is named
\* default-deny-all, is in the intent namespace ("default" when the intent has
\* none), has an empty podSelector, policyTypes [Ingress, Egress] and neither
\* ingress nor egress entries; with no rules it is the only manifest.
C24_DefaultDenyShape ==
    Returned =>
        LET m == ret.policies[1]
        IN  /\ m.metadata.name = "default-deny-all"
            /\ m.kind = "NetworkPolicy"
            /\ m.metadata.namespace = IntentNamespace(ret.intent)
            /\ m.spec.podSelector = EmptyDict
            /\ m.spec.policyTypes = <<"Ingress", "Egress">>
            /\ DOMAIN m.spec = {"podSelector", "policyTypes"}
            /\ RetRules = <<>> => Len(ret.policies) = 1

\* an intent that has a namespace and no rules key: one manifest, for web
C24_Witness ==
    /\ Returned
    /\ DOMAIN ret.intent = {"namespace"}
    /\ Len(ret.policies) = 1
    /\ ret.policies[1].metadata.namespace = Str("web")
    /\ ret.policies[1].spec.policyTypes = <<"Ingress", "Egress">>

Names(policies) == [k \in 1..Len(policies) |-> policies[k].metadata.name]

PairwiseDistinct(vals) ==
    \A i \in 1..Len(vals) : \A j \in 1..Len(vals) : vals[i] = vals[j] => i = j

\* C25: manifest names are a unique key -- the names in a list returned by
\* generate are pairwise distinct, and so are the names in a list returned by
\* generate_cilium_policy.
C25_UniqueNames ==
    /\ Returned => PairwiseDistinct(Names(ret.policies))
    /\ CiliumReturned => PairwiseDistinct(Names(cilium.policies))

\* C28: same-endpoint warning -- validate_intent gives the warning for rule i
\* exactly when rule i has both from and to and they are equal; a rule that
\* lacks from or to gets no such warning.
C28_SameEndpointWarning ==
    Validated =>
        \A i \in 1..Len(IntentRules(intent)) :
            LET rule == IntentRules(intent)[i]
                warning == "Rule " \o ToString(i - 1)
                               \o ": Source and destination are the same"
            IN  (warning \in Range(validation.warnings)) <=>
                    (MissingFields(rule) = {} /\ rule["from"] = rule["to"])

----------------------------------------------------------------------------
(* The drift detector *)

Keys(items) == [k \in 1..Len(items) |-> items[k].key]

\* C21: allowed-connections projection -- after register_allowed_connections
\* (generate(intent)), whatever was registered before, allowed_connections has
\* exactly the distinct `to` values of the intent's rules as keys and maps each
\* destination d to the `from` values of the rules with to = d, in rule order.
C21_Projection ==
    registered # NoCall =>
        LET rules == IntentRules(registered)
        IN  /\ PairwiseDistinct(Keys(allowed_connections))
            /\ Range(Keys(allowed_connections)) = Range(Column(rules, "to"))
            /\ \A k \in 1..Len(allowed_connections) :
                  allowed_connections[k].val =
                      Column(GroupOf(rules, "to", allowed_connections[k].key), "from")

\* a second registration, for an intent with two rules to backend: one key,
\* backend, with the two sources
C21_Witness ==
    /\ now = 2
    /\ registered = intent
    /\ Column(IntentRules(intent), "to") = <<Str("backend"), Str("backend")>>
    /\ allowed_connections =
          <<[key |-> Str("backend"), val |-> <<Str("frontend"), Str("frontend")>>]>>

\* the rule admits the connection: same endpoints, and no port filter or the
\* port and the protocol listed
Admits(rule, conn) ==
    /\ rule["from"] = conn.source
    /\ rule["to"] = conn.destination
    /\ \/ NoPorts(rule)
       \/ /\ conn.port \in Range(rule["ports"].v)
          /\ conn.protocol \in Range(Get(rule, "protocols", List(<<"TCP">>)).v)

\* C26: drift classification agrees with the policy set -- after
\* register_allowed_connections(generate(intent)), check_connection returns
\* allowed = true only for a connection that some rule of the intent admits.
C26_ClassificationAgrees ==
    (drift_ret # NoCall /\ drift_ret.op = "check" /\ registered # NoCall
     /\ drift_ret.ret.allowed) =>
        \E i \in 1..Len(IntentRules(registered)) :
            Admits(IntentRules(registered)[i], drift_ret.conn)

\* the fields of an event other than its two flags
Unflagged(event) == [event EXCEPT !.acknowledged = FALSE, !.resolved = FALSE]

\* C27: evolution of the event log -- check_connection leaves events unchanged
\* when it returns allowed = true and otherwise appends exactly one event, of
\* type unauthorized_connection and severity high, neither acknowledged nor
\* resolved, whose id it returns; no operation removes, reorders or rewrites an
\* event or clears a flag; acknowledge_event and resolve_event return true
\* exactly when an event has the given id and then set only their flag on one
\* event with that id.
C27_EventLog ==
    [][/\ Len(events') >= Len(events)
       /\ \A i \in 1..Len(events) :
             /\ Unflagged(events'[i]) = Unflagged(events[i])
             /\ events[i].acknowledged => events'[i].acknowledged
             /\ events[i].resolved => events'[i].resolved
       /\ drift_ret'.op = "check" =>
             IF drift_ret'.ret.allowed THEN events' = events
             ELSE /\ Len(events') = Len(events) + 1
                  /\ SubSeq(events', 1, Len(events)) = events
                  /\ LET e == events'[Len(events')]
                     IN  /\ e.event_type = "unauthorized_connection"
                         /\ e.severity = "high"
                         /\ ~e.acknowledged /\ ~e.resolved
                         /\ e.id = drift_ret'.ret.drift_event_id
       /\ drift_ret'.op = "acknowledge" =>
             /\ drift_ret'.ret = (\E i \in 1..Len(events) : events[i].id = drift_ret'.event_id)
             /\ IF drift_ret'.ret
                THEN \E i \in 1..Len(events) :
                        /\ events[i].id = drift_ret'.event_id
                        /\ events' = [events EXCEPT ![i].acknowledged = TRUE]
                ELSE events' = events
       /\ drift_ret'.op = "resolve" =>
             /\ drift_ret'.ret = (\E i \in 1..Len(events) : events[i].id = drift_ret'.event_id)
             /\ IF drift_ret'.ret
                THEN \E i \in 1..Len(events) :
                        /\ events[i].id = drift_ret'.event_id
                        /\ events' = [events EXCEPT ![i].resolved = TRUE]
                ELSE events' = events]_vars

\* a connection was refused, and its event acknowledged and then resolved
C27_Witness ==
    /\ Len(events) = 1
    /\ events[1].event_type = "unauthorized_connection"
    /\ events[1].acknowledged /\ events[1].resolved
    /\ drift_ret.op = "resolve" /\ drift_ret.ret = TRUE
    /\ drift_ret.event_id = events[1].id

----------------------------------------------------------------------------
(* PolicyGenerator.to_yaml: block-style YAML as yaml.dump writes it with    *)
(* default_flow_style=False and sort_keys=False.  A manifest is a tree of   *)
(* None, Str, Number, List and Mapping nodes; a text is the sequence of its *)
(* tokens, each with the column it is written at                            *)

Number(n) == [t |-> "int", v |-> n]

\* a dict in insertion order
Mapping(items) == [t |-> "map", v |-> items]

KV(key, val) == [key |-> Str(key), val |-> val]

IsScalar(node) == node.t \in {"None", "str", "int"}

\* the integers written in the manifests
YamlNumbers == {53, 80, 443}

\* plain scalars the resolver reads as null
NullTexts == {"null", "Null", "NULL", "~", ""}

\* the implicit resolver: what a plain scalar is read as
Resolve(text) ==
    IF text \in NullTexts THEN None
    ELSE IF \E n \in YamlNumbers : ToString(n) = text
         THEN Number(CHOOSE n \in YamlNumbers : ToString(n) = text)
         ELSE Str(text)

\* the representer: a string is written plain only when a plain scalar with
\* its text would be read as that string again, and quoted otherwise
Represent(node) ==
    CASE node.t = "None" -> [text |-> "null", quoted |-> FALSE]
      [] node.t = "int" -> [text |-> ToString(node.v), quoted |-> FALSE]
      [] node.t = "str" -> [text |-> node.v, quoted |-> Resolve(node.v) # node]

\* the constructor: what a scalar token is read as
Construct(token) ==
    IF token.quoted THEN Str(token.text) ELSE Resolve(token.text)

KeyToken(col, scalar) ==
    [k |-> "key", col |-> col, text |-> scalar.text, quoted |-> scalar.quoted]

EntryToken(col) == [k |-> "entry", col |-> col, text |-> "-", quoted |-> FALSE]

ScalarToken(col, scalar) ==
    [k |-> "scalar", col |-> col, text |-> scalar.text, quoted |-> scalar.quoted]

FlowToken(col, text) == [k |-> "flow", col |-> col, text |-> text, quoted |-> FALSE]

\* the "---\n" to_yaml joins the documents with
Separator == [k |-> "separator", col |-> 0, text |-> "---", quoted |-> FALSE]

\* a node written after a key or an entry mark: a scalar or an empty
\* collection on the same line, the items of a mapping at column map_col,
\* the entries of a list at column list_col
RECURSIVE DumpNode(_, _, _)
RECURSIVE DumpItems(_, _)
RECURSIVE DumpEntries(_, _)
DumpNode(node, map_col, list_col) ==
    IF IsScalar(node) THEN <<ScalarToken(map_col, Represent(node))>>
    ELSE IF node.v = <<>>
         THEN <<FlowToken(map_col, IF node.t = "map" THEN "{}" ELSE "[]")>>
         ELSE IF node.t = "map" THEN DumpItems(node.v, map_col)
              ELSE DumpEntries(node.v, list_col)

\* "key:" lines; a nested mapping is indented by two, a nested list is not
DumpItems(items, col) ==
    IF items = <<>> THEN <<>>
    ELSE <<KeyToken(col, Represent(Head(items).key))>>
         \o DumpNode(Head(items).val, col + 2, col)
         \o DumpItems(Tail(items), col)

\* "- " lines; what is nested in an entry starts two columns further
DumpEntries(entries, col) ==
    IF entries = <<>> THEN <<>>
    ELSE <<EntryToken(col)>>
         \o DumpNode(Head(entries), col + 2, col + 2)
         \o DumpEntries(Tail(entries), col)

\* yaml.dump(policy, default_flow_style=False, sort_keys=False)
YamlDump(policy) == DumpNode(policy, 0, 0)

\* the parser: the node that starts at tokens[pos] and the position after it;
\* a key continues the enclosing mapping unless it is at map_col or further,
\* and an entry mark the enclosing list unless it is at list_col or further
RECURSIVE ParseNode(_, _, _, _)
RECURSIVE ParseItems(_, _, _, _)
RECURSIVE ParseEntries(_, _, _, _)
ParseNode(tokens, pos, map_col, list_col) ==
    IF pos > Len(tokens) THEN [val |-> None, pos |-> pos]
    ELSE LET token == tokens[pos]
         IN  CASE token.k = "scalar" -> [val |-> Construct(token), pos |-> pos + 1]
               [] token.k = "flow" ->
                    [val |-> IF token.text = "{}" THEN Mapping(<<>>) ELSE List(<<>>),
                     pos |-> pos + 1]
               [] token.k = "key" /\ token.col >= map_col ->
                    ParseItems(tokens, pos, token.col, <<>>)
               [] token.k = "entry" /\ token.col >= list_col ->
                    ParseEntries(tokens, pos, token.col, <<>>)
               [] OTHER -> [val |-> None, pos |-> pos]

ParseItems(tokens, pos, col, items) ==
    IF pos <= Len(tokens) /\ tokens[pos].k = "key" /\ tokens[pos].col = col
    THEN LET value == ParseNode(tokens, pos + 1, col + 1, col)
         IN  ParseItems(tokens, value.pos, col,
                        Append(items, [key |-> Construct(tokens[pos]),
                                       val |-> value.val]))
    ELSE [val |-> Mapping(items), pos |-> pos]

ParseEntries(tokens, pos, col, entries) ==
    IF pos <= Len(tokens) /\ tokens[pos].k = "entry" /\ tokens[pos].col = col
    THEN LET value == ParseNode(tokens, pos + 1, col + 1, col + 1)
         IN  ParseEntries(tokens, value.pos, col, Append(entries, value.val))
    ELSE [val |-> List(entries), pos |-> pos]

\* yaml.safe_load of one document; None when tokens are left over
YamlLoad(document) ==
    LET parsed == ParseNode(document, 1, 0, 0)
    IN  IF parsed.pos = Len(document) + 1 THEN parsed.val ELSE None

\* the documents of a text, as yaml.safe_load_all cuts it at the separators
Documents(text) ==
    LET at == {i \in 1..Len(text) : text[i] = Separator}
        cut(k) == IF k = 0 THEN 0
                  ELSE IF k > Cardinality(at) THEN Len(text) + 1
                  ELSE CHOOSE i \in at : Cardinality({j \in at : j < i}) = k - 1
    IN  IF text = <<>> THEN <<>>
        ELSE [k \in 1..(Cardinality(at) + 1) |->
                 SubSeq(text, cut(k - 1) + 1, cut(k) - 1)]

Separators(text) == Len(SelectSeq(text, LAMBDA token : token = Separator))

\* sep.join(texts)
RECURSIVE JoinTexts(_, _)
JoinTexts(sep, texts) ==
    IF texts = <<>> THEN <<>>
    ELSE IF Len(texts) = 1 THEN Head(texts)
    ELSE Head(texts) \o <<sep>> \o JoinTexts(sep, Tail(texts))

\* a bug: the documents are concatenated with nothing between them
ToYamlUnseparated(pols) == Flatten([k \in 1..Len(pols) |-> YamlDump(pols[k])])

\* lines 298-303
ToYaml(pols) ==
    LET yaml_docs == [k \in 1..Len(pols) |-> YamlDump(pols[k])]
    IN  JoinTexts(Separator, yaml_docs)

\* manifests as the generator builds them, as trees
PodSelector(app) ==
    Mapping(<<KV("matchLabels", Mapping(<<KV("app", Str(app))>>))>>)

DefaultDenyTree ==
    Mapping(<<KV("apiVersion", Str("networking.k8s.io/v1")),
              KV("kind", Str("NetworkPolicy")),
              KV("metadata", Mapping(<<KV("name", Str("default-deny-all")),
                                       KV("namespace", Str("default"))>>)),
              KV("spec", Mapping(<<KV("podSelector", Mapping(<<>>)),
                                   KV("policyTypes",
                                      List(<<Str("Ingress"), Str("Egress")>>))>>))>>)

IngressTree ==
    Mapping(<<KV("kind", Str("NetworkPolicy")),
              KV("metadata",
                 Mapping(<<KV("name", Str("allow-ingress-to-backend")),
                           KV("annotations",
                              Mapping(<<KV("policy.network/allowed-sources",
                                           Str("frontend,80"))>>))>>)),
              KV("spec",
                 Mapping(<<KV("podSelector", PodSelector("backend")),
                           KV("policyTypes", List(<<Str("Ingress")>>)),
                           KV("ingress",
                              List(<<Mapping(<<
                                  KV("from", List(<<Mapping(<<
                                      KV("podSelector", PodSelector("frontend"))>>)>>)),
                                  KV("ports", List(<<
                                      Mapping(<<KV("port", Number(80)),
                                                KV("protocol", Str("TCP"))>>),
                                      Mapping(<<KV("port", Number(443)),
                                                KV("protocol", Str("TCP"))>>)>>))
                                  >>)>>))>>))>>)

\* a rule without ports: an ingress entry with the from key alone, and the
\* namespace of an intent whose namespace is None
PortlessTree ==
    Mapping(<<KV("metadata", Mapping(<<KV("name", Str("allow-ingress-to-80")),
                                       KV("namespace", None)>>)),
              KV("spec",
                 Mapping(<<KV("podSelector", PodSelector("80")),
                           KV("ingress",
                              List(<<Mapping(<<
                                  KV("from", List(<<
                                      Mapping(<<KV("podSelector", PodSelector("null"))>>),
                                      Mapping(<<KV("podSelector", PodSelector(""))>>)
                                      >>))>>)>>)),
                           KV("policyTypes", List(<<Str("Ingress")>>))>>))>>)

\* generate_cilium_policy writes the port as a string
CiliumTree ==
    Mapping(<<KV("apiVersion", Str("cilium.io/v2")),
              KV("kind", Str("CiliumNetworkPolicy")),
              KV("spec",
                 Mapping(<<KV("endpointSelector", PodSelector("backend")),
                           KV("ingress",
                              List(<<Mapping(<<
                                  KV("fromEndpoints", List(<<PodSelector("frontend")>>)),
                                  KV("toPorts", List(<<Mapping(<<
                                      KV("ports", List(<<
                                          Mapping(<<KV("port", Str("53")),
                                                    KV("protocol", Str("TCP"))>>)>>)),
                                      KV("rules", Mapping(<<
                                          KV("http", List(<<>>))>>))>>)>>))
                                  >>)>>))>>))>>)

Trees == {DefaultDenyTree, IngressTree, PortlessTree, CiliumTree}

\* the lists of up to MaxDocs manifests
ManifestLists ==
    UNION {[1..n -> Trees] : n \in 0..MaxDocs}

\* generator.to_yaml(manifests)
CallToYaml ==
    /\ budget > 0
    /\ yaml = NoCall
    /\ yaml' = [gen |-> policy_generator, ret |-> ToYaml(manifests)]
    /\ budget' = budget - 1
    /\ UNCHANGED <<intent, generated_policies, now, first, ret, validation, cilium,
                   policies_store, manifests, drift_vars, cluster_vars, response>>

NextYaml == CallToYaml

InitYaml ==
    /\ intent \in StoreIntents
    /\ budget = 1
    /\ generated_policies = [g \in Instances |-> <<>>]
    /\ now = 0
    /\ first = NoCall /\ ret = NoCall
    /\ validation = NoCall /\ cilium = NoCall
    /\ policies_store = <<>>
    /\ manifests \in ManifestLists /\ yaml = NoCall
    /\ allowed_connections = <<>> /\ events = <<>>
    /\ registered = NoCall /\ drift_ret = NoCall
    /\ cluster = <<>> /\ broadcasts = <<>> /\ response = NoCall

SpecYaml == InitYaml /\ [][NextYaml]_vars

----------------------------------------------------------------------------
(* The policy store *)

\* the cluster calls made for a policy_id, oldest first
ClusterCalls(policy_id) ==
    SelectSeq(cluster, LAMBDA call : call.policy_id = policy_id)

\* the applies among the cluster calls that precede the k-th
AppliedBefore(calls, k) ==
    {j \in 1..(k - 1) : calls[j].op = "apply"}

\* C29: a deploy request for a policy_id that is not stored is answered 404
\* "Policy not found", applies nothing to the cluster, broadcasts no event
\* and leaves policies_store as it was
C29_UnknownDeploy ==
    [][(/\ response' # NoCall
        /\ response'.handler = "deploy"
        /\ response'.policy_id \notin StoreIds)
       => /\ response'.status = 404
          /\ response'.detail = "Policy not found"
          /\ cluster' = cluster
          /\ broadcasts' = broadcasts
          /\ policies_store' = policies_store]_vars

\* C30: a stored policy set is marked deployed only when a deploy request for
\* its id had every manifest applied; a policy set answered as deleted is
\* absent from the store; and a cluster delete follows an apply for the same
\* id and goes to the namespace of the last one
C30_Lifecycle ==
    /\ \A i \in 1..Len(policies_store) :
          policies_store[i].deployed =>
              \E k \in 1..Len(cluster) :
                  /\ cluster[k].op = "apply"
                  /\ cluster[k].policy_id = policies_store[i].id
                  /\ cluster[k].results.failed = <<>>
    /\ (response # NoCall /\ response.handler = "delete" /\ response.status = 200)
           => response.policy_id \notin StoreIds
    /\ \A policy_id \in {cluster[k].policy_id : k \in 1..Len(cluster)} :
          LET calls == ClusterCalls(policy_id)
          IN  \A k \in 1..Len(calls) :
                  calls[k].op = "delete" =>
                      /\ AppliedBefore(calls, k) # {}
                      /\ calls[k].namespace =
                             calls[CHOOSE j \in AppliedBefore(calls, k) :
                                       \A l \in AppliedBefore(calls, k) : l <= j].namespace

\* what the store handlers do keep: nothing is deployed before a deploy
\* request, deployed never turns false, and a delete reaches the cluster
\* exactly when the entry was marked deployed
StoreLifecycleKept ==
    [][/\ \A i \in 1..Len(policies_store) : \A j \in 1..Len(policies_store') :
              (policies_store[i].id = policies_store'[j].id
               /\ policies_store[i].deployed) => policies_store'[j].deployed
       /\ \A j \in 1..Len(policies_store') :
              (policies_store'[j].id \notin StoreIds) => ~policies_store'[j].deployed
       /\ (response' # NoCall /\ response'.handler = "delete"
           /\ response'.policy_id \in StoreIds)
              => (cluster' # cluster <=>
                  policies_store[StoreIndex(response'.policy_id)].deployed)]_vars

----------------------------------------------------------------------------
(* The serializer *)

====
